---- MODULE Spec2Model ----
(***************************************************************************)
(* Enhanced Nextion library: the serial frame decoder, the dispatcher, the *)
(* command queue, the response store, the blocking adapters and the        *)
(* expiration sweep of the latest revision of NexHardware.cpp/NexQueues.cpp *)
(* Bytes are integers 0..255, strings are sequences of bytes.              *)
(***************************************************************************)
EXTENDS Integers, Sequences, FiniteSets, TLC

VARIABLES
    Qread,          \* NexEventQueue::Qread
    Qwrite,         \* NexEventQueue::Qwrite
    eventQ,         \* NexEventQueue::eventQ[CMD_QUEUE_SIZE]
    respQ,          \* NexResponseQueue::respQ[RX_2ND_ARR_SIZE]
    respQwrite,     \* NexResponseQueue::Qwrite
    RX_buffer,      \* static byte RX_buffer[RX_BUFFER_SIZE]
    RX_ind,         \* static size_t RX_ind
    RX_ind_old,     \* static size_t RX_ind_old
    endTransCnt,    \* static uint8_t endTransCnt
    handlers,       \* the registered (non-null) global event callbacks
    serial,         \* bytes m_nexSerial->available() would report, in order
    wire,           \* bytes the device has sent that have not arrived yet
    now,            \* millis()
    blk,            \* the blocking call in progress (recvCommand/recvRetNumber/recvRetString)
    log,            \* history: one entry per dequeued command or invoked handler
    dispatched,     \* history: the frames handed to parseReceivedMessage
    sent,           \* history: the frames the device has sent
    issued,         \* history: the commands issued, by issue index
    enqRet          \* history: what the last enqueue returned and what it found

vars == <<Qread, Qwrite, eventQ, respQ, respQwrite, RX_buffer, RX_ind,
          RX_ind_old, endTransCnt, handlers, serial, wire, now, blk, log,
          dispatched, sent, issued, enqRet>>

engineVars == <<Qread, Qwrite, eventQ, respQ, respQwrite, RX_buffer, RX_ind,
                RX_ind_old, endTransCnt, log, dispatched>>

----------------------------------------------------------------------------
(* Sizes.  The source sets them to 8, 8 and 128; the model scales them.    *)

CMD_QUEUE_SIZE == 2
RX_2ND_ARR_SIZE == 2
RX_BUFFER_SIZE == 10

(* Bounds of the exploration.                                              *)
MaxCmds == CMD_QUEUE_SIZE + 1
MaxCalls == RX_2ND_ARR_SIZE + 1
MaxFrames == 2
MaxTime == 2
MaxTimeout == 2

(* Width of the size_t counters and of the millis() clock in the model.    *)
CounterBits == 4
ClockBits == 4

SizeMod == 2 ^ CounterBits
ClockMod == 2 ^ ClockBits

----------------------------------------------------------------------------
(* Protocol codes.                                                         *)

NEX_RET_EVENT_NEXTION_STARTUP == 0
NEX_RET_EVENT_TOUCH_HEAD == 101
NEX_RET_CURRENT_PAGE_ID_HEAD == 102
NEX_RET_EVENT_POSITION_HEAD == 103
NEX_RET_EVENT_SLEEP_POSITION_HEAD == 104
NEX_RET_STRING_HEAD == 112
NEX_RET_NUMBER_HEAD == 113
NEX_RET_AUTOMATIC_SLEEP == 134
NEX_RET_AUTOMATIC_WAKE_UP == 135
NEX_RET_EVENT_NEXTION_READY == 136
NEX_RET_START_SD_UPGRADE == 137
Nex_RET_TRANSPARENT_DATA_FINISHED == 253
Nex_RET_TRANSPARENT_DATA_READY == 254
NEX_RET_CMD_FINISHED_OK == 1
NEX_RET_SERIAL_BUFFER_OVERFLOW == 36
NEX_END_TRANSMISSION_VALUE == 255
NEX_END_TRANSMISSION_LENGTH == 3

(* The failure-reason codes of the return-code table.                      *)
FailureCodes == {2, 3, 4, 5, 6, 9, 17, 18, 26, 27, 28, 29, 30, 31, 32, 35, 36}

CommandTypes == {"CT_command", "CT_number", "CT_stringHead", "CT_stringHeadless"}

Terminator == <<NEX_END_TRANSMISSION_VALUE, NEX_END_TRANSMISSION_VALUE,
                NEX_END_TRANSMISSION_VALUE>>

----------------------------------------------------------------------------
(* Records.                                                                *)

\* a zero-initialised nexQueuedCommand (static storage); response -1 is nullptr
\* cb is the callback union (numCB / strCB / succCB): TRUE when non-null
ZeroCommand ==
    [successReturnCode |-> 0, cmdType |-> "CT_command", cb |-> FALSE,
     failCB |-> FALSE, expiration_time |-> 0, response |-> -1, id |-> -1]

\* a zero-initialised nexResponses
ZeroResponse ==
    [RX_buf |-> [i \in 0..(RX_BUFFER_SIZE - 1) |-> 0], RX_ind |-> 0]

\* the engine state as one value, so that the handlers compose
Engine ==
    [Qread |-> Qread, Qwrite |-> Qwrite, eventQ |-> eventQ, respQ |-> respQ,
     respQwrite |-> respQwrite, RX_buffer |-> RX_buffer, RX_ind |-> RX_ind,
     RX_ind_old |-> RX_ind_old, endTransCnt |-> endTransCnt, log |-> log,
     dispatched |-> dispatched]

Commit(e) ==
    /\ Qread' = e.Qread
    /\ Qwrite' = e.Qwrite
    /\ eventQ' = e.eventQ
    /\ respQ' = e.respQ
    /\ respQwrite' = e.respQwrite
    /\ RX_buffer' = e.RX_buffer
    /\ RX_ind' = e.RX_ind
    /\ RX_ind_old' = e.RX_ind_old
    /\ endTransCnt' = e.endTransCnt
    /\ log' = e.log
    /\ dispatched' = e.dispatched

\* a read of the receive buffer; an index past the array reads as 0
BufAt(buf, i) == IF i \in DOMAIN buf THEN buf[i] ELSE 0

\* the first n bytes of a buffer, as a sequence
Prefix(buf, n) == [i \in 1..n |-> BufAt(buf, i - 1)]

\* one history entry: id >= 0 names the dequeued command, -1 a global handler;
\* the entry keeps the decoder's statics as they are when it is made
Ev(e, id, ev, val) ==
    [e EXCEPT !.log = Append(@, [id |-> id, ev |-> ev, val |-> val,
                                 fr |-> Len(e.dispatched),
                                 RX_ind |-> e.RX_ind,
                                 RX_ind_old |-> e.RX_ind_old,
                                 endTransCnt |-> e.endTransCnt])]

----------------------------------------------------------------------------
(* NexEventQueue                                                           *)


\* isEmpty with a slip: the cursors are compared for order
isEmptyWhenPast(e) == e.Qread > e.Qwrite

isEmpty(e) == e.Qread = e.Qwrite

peek(e) == e.eventQ[e.Qread % CMD_QUEUE_SIZE]

\* the value enqueue returns, computed after Qwrite++ (qw is the new Qwrite):
\* (Qwrite+1 %CMD_QUEUE_SIZE) parses as Qwrite + (1 % CMD_QUEUE_SIZE)
EnqueueResult(qw, qr) ==
    ((qw + (1 % CMD_QUEUE_SIZE)) % SizeMod) # (qr % CMD_QUEUE_SIZE)

enqueue(e, event) ==
    LET qw == (e.Qwrite + 1) % SizeMod
    IN  [e |-> [e EXCEPT !.eventQ[e.Qwrite % CMD_QUEUE_SIZE] = event,
                         !.Qwrite = qw],
         saveSpot |-> e.Qwrite,
         ret |-> EnqueueResult(qw, e.Qread)]

dequeue(e) == [e EXCEPT !.Qread = (e.Qread + 1) % SizeMod]

passedIndex(e, saveSpot) ==
    LET wrapCase == e.Qwrite < CMD_QUEUE_SIZE /\ e.Qread > CMD_QUEUE_SIZE
        r1 == IF wrapCase
              THEN (e.Qread % CMD_QUEUE_SIZE) > (saveSpot % CMD_QUEUE_SIZE)
              ELSE FALSE
    IN  IF e.Qread > saveSpot THEN TRUE ELSE r1


\* clearExpiredCommands with a slip: a second expired command goes as well
clearExpiredCommandsTwice(e, millis) ==
    LET once(x) == IF ~isEmpty(x) /\ millis >= peek(x).expiration_time
                   THEN Ev(dequeue(x), peek(x).id, "sweep", <<>>)
                   ELSE x
    IN  once(once(e))

clearExpiredCommands(e, millis) ==
    IF ~isEmpty(e) /\ millis >= peek(e).expiration_time
    THEN Ev(dequeue(e), peek(e).id, "sweep", <<>>)
    ELSE e

----------------------------------------------------------------------------
(* NexResponseQueue                                                        *)

storeData(e, event) ==
    IF event.response # -1
    THEN [e EXCEPT !.respQ[event.response] =
            [RX_ind |-> e.RX_ind_old,
             RX_buf |-> [i \in DOMAIN @.RX_buf |->
                           IF i < e.RX_ind_old THEN BufAt(e.RX_buffer, i)
                           ELSE @.RX_buf[i]]]]
    ELSE e

getResponseSlot(e) ==
    [e |-> [e EXCEPT !.respQwrite = (e.respQwrite + 1) % SizeMod],
     slot |-> e.respQwrite % RX_2ND_ARR_SIZE]

----------------------------------------------------------------------------
(* Payload decoding.                                                       *)

\* (b4 << 24) | (b3 << 16) | (b2 << 8) | b1 converted to int32_t
Int32FromBytes(b1, b2, b3, b4) ==
    (IF b4 >= 128 THEN b4 - 256 ELSE b4) * 16777216 + b3 * 65536 + b2 * 256 + b1

\* the String built from RX_buffer[from] .. RX_buffer[RX_ind_old - 4]
StringFrom(e, from) ==
    [i \in 1..(e.RX_ind_old - 3 - from) |-> BufAt(e.RX_buffer, from + i - 1)]

FFat(e, i) == BufAt(e.RX_buffer, i) = NEX_END_TRANSMISSION_VALUE

\* the history entry of a call through a null function pointer
NullCall == "call through null pointer"

\* a global callback is invoked when it is registered
Handler(e, name, val) == IF name \in handlers THEN Ev(e, -1, name, val) ELSE e

----------------------------------------------------------------------------
(* Nextion::parseReceivedMessage, one operator per case of the switch.     *)

\* ParseStartup with a slip: the failure target gets the expected code
ParseStartupExpectedCode(e) ==
    IF /\ BufAt(e.RX_buffer, 1) = 0 /\ BufAt(e.RX_buffer, 2) = 0
       /\ FFat(e, 3) /\ FFat(e, 4) /\ FFat(e, 5)
    THEN Handler(e, "nextionStartupCallback", <<>>)
    ELSE IF FFat(e, 1) /\ FFat(e, 2) /\ FFat(e, 3)
    THEN IF ~isEmpty(e)
         THEN LET event == peek(e)
                  d == dequeue(e)
              IN  IF event.failCB
                  THEN Ev(d, event.id, "fail", <<event.successReturnCode>>)
                  ELSE Ev(d, event.id, "none", <<>>)
         ELSE e
    ELSE e

ParseStartup(e) ==
    IF /\ BufAt(e.RX_buffer, 1) = 0 /\ BufAt(e.RX_buffer, 2) = 0
       /\ FFat(e, 3) /\ FFat(e, 4) /\ FFat(e, 5)
    THEN Handler(e, "nextionStartupCallback", <<>>)
    ELSE IF FFat(e, 1) /\ FFat(e, 2) /\ FFat(e, 3)
    THEN IF ~isEmpty(e)
         THEN LET event == peek(e)
                  d == dequeue(e)
              IN  IF event.failCB
                  THEN Ev(d, event.id, "fail", <<BufAt(e.RX_buffer, 0)>>)
                  ELSE Ev(d, event.id, "none", <<>>)
         ELSE e
    ELSE e


\* ParseCmdFinished with a slip: the command is looked at but stays queued
ParseCmdFinishedPeeks(e) ==
    IF ~isEmpty(e)
    THEN LET event == peek(e)
             b0 == BufAt(e.RX_buffer, 0)
             f == IF b0 # event.successReturnCode /\ event.failCB
                  THEN Ev(e, event.id, "fail", <<b0>>)
                  ELSE IF b0 = event.successReturnCode /\ event.cb
                  THEN Ev(e, event.id, "succ", <<>>)
                  ELSE Ev(e, event.id, "none", <<>>)
         IN  storeData(f, event)
    ELSE e

ParseCmdFinished(e) ==
    IF ~isEmpty(e)
    THEN LET event == peek(e)
             d == dequeue(e)
             b0 == BufAt(e.RX_buffer, 0)
             f == IF b0 # event.successReturnCode /\ event.failCB
                  THEN Ev(d, event.id, "fail", <<b0>>)
                  ELSE IF b0 = event.successReturnCode /\ event.cb
                  THEN Ev(d, event.id, "succ", <<>>)
                  ELSE Ev(d, event.id, "none", <<>>)
         IN  storeData(f, event)
    ELSE e

ParseBufferOverflow(e) == e

ParseTouch(e) ==
    IF FFat(e, 4) /\ FFat(e, 5) /\ FFat(e, 6)
    THEN Ev(e, -1, "NexTouch::iterate",
            <<BufAt(e.RX_buffer, 1), BufAt(e.RX_buffer, 2), BufAt(e.RX_buffer, 3)>>)
    ELSE e

ParsePageId(e) ==
    IF FFat(e, 2) /\ FFat(e, 3) /\ FFat(e, 4)
    THEN Handler(e, "currentPageIdCallback", <<BufAt(e.RX_buffer, 1)>>)
    ELSE e

ParseString(e) ==
    IF ~isEmpty(e)
    THEN LET event == peek(e)
             d == dequeue(e)
             b0 == BufAt(e.RX_buffer, 0)
         IN  IF b0 # event.successReturnCode /\ event.failCB
             THEN Ev(d, event.id, "fail", <<b0>>)
             ELSE LET s == storeData(d, event)
                  IN  IF event.cb
                      THEN Ev(s, event.id, "str", StringFrom(e, 1))
                      ELSE Ev(s, event.id, "none", <<>>)
    ELSE e


\* ParseNumber with a slip: the failure target gets the expected code
ParseNumberExpectedCode(e) ==
    IF ~isEmpty(e)
    THEN LET event == peek(e)
             d == dequeue(e)
             b0 == BufAt(e.RX_buffer, 0)
         IN  IF b0 # event.successReturnCode /\ event.failCB
             THEN Ev(d, event.id, "fail", <<event.successReturnCode>>)
             ELSE LET f == IF event.cb
                           THEN Ev(d, event.id, "num",
                                   <<Int32FromBytes(BufAt(e.RX_buffer, 1),
                                                    BufAt(e.RX_buffer, 2),
                                                    BufAt(e.RX_buffer, 3),
                                                    BufAt(e.RX_buffer, 4))>>)
                           ELSE Ev(d, event.id, "none", <<>>)
                  IN  storeData(f, event)
    ELSE e

ParseNumber(e) ==
    IF ~isEmpty(e)
    THEN LET event == peek(e)
             d == dequeue(e)
             b0 == BufAt(e.RX_buffer, 0)
         IN  IF b0 # event.successReturnCode /\ event.failCB
             THEN Ev(d, event.id, "fail", <<b0>>)
             ELSE LET f == IF event.cb
                           THEN Ev(d, event.id, "num",
                                   <<Int32FromBytes(BufAt(e.RX_buffer, 1),
                                                    BufAt(e.RX_buffer, 2),
                                                    BufAt(e.RX_buffer, 3),
                                                    BufAt(e.RX_buffer, 4))>>)
                           ELSE Ev(d, event.id, "none", <<>>)
                  IN  storeData(f, event)
    ELSE e

\* 16-bit coordinates ((int16_t)b[2] << 8) | b[1]
ParsePosition(e) ==
    LET b0 == BufAt(e.RX_buffer, 0)
        args == <<BufAt(e.RX_buffer, 2) * 256 + BufAt(e.RX_buffer, 1),
                  BufAt(e.RX_buffer, 4) * 256 + BufAt(e.RX_buffer, 3),
                  BufAt(e.RX_buffer, 5)>>
    IN  IF FFat(e, 6) /\ FFat(e, 7) /\ FFat(e, 8)
        THEN IF b0 = NEX_RET_EVENT_POSITION_HEAD
                /\ "touchCoordinateCallback" \in handlers
             THEN Ev(e, -1, "touchCoordinateCallback", args)
             ELSE IF b0 = NEX_RET_EVENT_SLEEP_POSITION_HEAD
                     /\ "touchCoordinateCallback" \in handlers
             THEN \* calls touchEventInSleepModeCallback, null or not
                  IF "touchEventInSleepModeCallback" \in handlers
                  THEN Ev(e, -1, "touchEventInSleepModeCallback", args)
                  ELSE Ev(e, -1, NullCall, args)
             ELSE e
        ELSE e

ParseSleepWake(e) ==
    LET b0 == BufAt(e.RX_buffer, 0)
    IN  IF FFat(e, 1) /\ FFat(e, 2) /\ FFat(e, 3)
        THEN IF b0 = NEX_RET_AUTOMATIC_SLEEP
             THEN Handler(e, "automaticSleepCallback", <<>>)
             ELSE Handler(e, "automaticWakeUpCallback", <<>>)
        ELSE e

ParseReady(e) == Handler(e, "nextionReadyCallback", <<>>)

ParseSdUpgrade(e) == Handler(e, "startSdUpgradeCallback", <<>>)


\* ParseDefault with a slip: only a headless-string command is dequeued
ParseDefaultHeadlessOnly(e) ==
    IF ~isEmpty(e) /\ peek(e).cmdType = "CT_stringHeadless"
    THEN LET event == peek(e)
             s == storeData(dequeue(e), event)
         IN  IF event.cb
             THEN Ev(s, event.id, "str", StringFrom(e, 0))
             ELSE Ev(s, event.id, "none", <<>>)
    ELSE e

ParseDefault(e) ==
    IF ~isEmpty(e)
    THEN LET event == peek(e)
             d == dequeue(e)
             b0 == BufAt(e.RX_buffer, 0)
         IN  IF event.cmdType = "CT_stringHeadless"
             THEN LET s == storeData(d, event)
                  IN  IF event.cb
                      THEN Ev(s, event.id, "str", StringFrom(e, 0))
                      ELSE Ev(s, event.id, "none", <<>>)
             ELSE IF b0 = event.successReturnCode /\ event.cb
             THEN Ev(d, event.id, "succ", <<>>)
             ELSE IF event.failCB
             THEN Ev(d, event.id, "fail", <<b0>>)
             ELSE Ev(d, event.id, "none", <<>>)
    ELSE e

\* parseReceivedMessage as the earlier revision calls it: the write offset and
\* the run counter are reset only when the dispatch has returned
parseReceivedMessageBeforeReset(e0) ==
    LET e == [e0 EXCEPT !.dispatched =
                   Append(@, Prefix(e0.RX_buffer, e0.RX_ind_old)),
                        !.RX_ind = e0.RX_ind_old,
                        !.endTransCnt = NEX_END_TRANSMISSION_LENGTH]
        b0 == BufAt(e.RX_buffer, 0)
        p == CASE b0 = NEX_RET_EVENT_NEXTION_STARTUP -> ParseStartup(e)
               [] b0 = NEX_RET_CMD_FINISHED_OK -> ParseCmdFinished(e)
               [] b0 = NEX_RET_SERIAL_BUFFER_OVERFLOW -> ParseBufferOverflow(e)
               [] b0 = NEX_RET_EVENT_TOUCH_HEAD -> ParseTouch(e)
               [] b0 = NEX_RET_CURRENT_PAGE_ID_HEAD -> ParsePageId(e)
               [] b0 = NEX_RET_STRING_HEAD -> ParseString(e)
               [] b0 = NEX_RET_NUMBER_HEAD -> ParseNumber(e)
               [] b0 \in {NEX_RET_EVENT_POSITION_HEAD,
                          NEX_RET_EVENT_SLEEP_POSITION_HEAD} -> ParsePosition(e)
               [] b0 \in {NEX_RET_AUTOMATIC_SLEEP,
                          NEX_RET_AUTOMATIC_WAKE_UP} -> ParseSleepWake(e)
               [] b0 = NEX_RET_EVENT_NEXTION_READY -> ParseReady(e)
               [] b0 = NEX_RET_START_SD_UPGRADE -> ParseSdUpgrade(e)
               [] OTHER -> ParseDefault(e)
    IN  [p EXCEPT !.RX_ind = 0, !.endTransCnt = 0]

\* the frame is recorded in the history, then the switch on RX_buffer[0]
parseReceivedMessage(e0) ==
    LET e == [e0 EXCEPT !.dispatched =
                   Append(@, Prefix(e0.RX_buffer, e0.RX_ind_old))]
        b0 == BufAt(e.RX_buffer, 0)
    IN  CASE b0 = NEX_RET_EVENT_NEXTION_STARTUP -> ParseStartup(e)
          [] b0 = NEX_RET_CMD_FINISHED_OK -> ParseCmdFinished(e)
          [] b0 = NEX_RET_SERIAL_BUFFER_OVERFLOW -> ParseBufferOverflow(e)
          [] b0 = NEX_RET_EVENT_TOUCH_HEAD -> ParseTouch(e)
          [] b0 = NEX_RET_CURRENT_PAGE_ID_HEAD -> ParsePageId(e)
          [] b0 = NEX_RET_STRING_HEAD -> ParseString(e)
          [] b0 = NEX_RET_NUMBER_HEAD -> ParseNumber(e)
          [] b0 \in {NEX_RET_EVENT_POSITION_HEAD,
                     NEX_RET_EVENT_SLEEP_POSITION_HEAD} -> ParsePosition(e)
          [] b0 \in {NEX_RET_AUTOMATIC_SLEEP,
                     NEX_RET_AUTOMATIC_WAKE_UP} -> ParseSleepWake(e)
          [] b0 = NEX_RET_EVENT_NEXTION_READY -> ParseReady(e)
          [] b0 = NEX_RET_START_SD_UPGRADE -> ParseSdUpgrade(e)
          [] OTHER -> ParseDefault(e)

----------------------------------------------------------------------------
(* Nextion::readSerialData                                                 *)


\* WriteOffset with a slip: a leading 0xFF stays in the buffer
WriteOffsetKeepsLeading(e, newData) == e.RX_ind + 1

\* RX_ind after RX_buffer[RX_ind++] = newData and the back-up (RX_ind--) of a
\* 0xFF that was stored at offset 0
WriteOffset(e, newData) ==
    IF newData = NEX_END_TRANSMISSION_VALUE /\ e.RX_ind + 1 = 1
    THEN 0
    ELSE e.RX_ind + 1

\* InTerminator of the earlier revision: every 0xFF after the first byte counts
InTerminatorRunLength(buf, ind, cnt) == TRUE

\* inTerminator for a 0xFF byte stored at position ind - 1, ind > 1
InTerminator(buf, ind, cnt) ==
    IF BufAt(buf, 0) = NEX_RET_NUMBER_HEAD
    THEN ind >= 6
    ELSE (BufAt(buf, ind - 2) = NEX_END_TRANSMISSION_VALUE) # (cnt = 0)

\* ReadByte with a slip: a byte other than 0xFF leaves the run counter alone
ReadByteKeepsCount(e, newData) ==
    LET buf == IF e.RX_ind \in DOMAIN e.RX_buffer
               THEN [e.RX_buffer EXCEPT ![e.RX_ind] = newData]
               ELSE e.RX_buffer
        isFF == newData = NEX_END_TRANSMISSION_VALUE
        ind == WriteOffset(e, newData)
        w == [e EXCEPT !.RX_buffer = buf, !.RX_ind = ind]
    IN  IF isFF /\ ind > 1
        THEN IF InTerminator(buf, ind, e.endTransCnt)
             THEN IF e.endTransCnt + 1 = NEX_END_TRANSMISSION_LENGTH
                  THEN [e |-> [w EXCEPT !.endTransCnt = 0, !.RX_ind_old = ind,
                                        !.RX_ind = 0],
                        frame |-> TRUE]
                  ELSE [e |-> [w EXCEPT !.endTransCnt = e.endTransCnt + 1],
                        frame |-> FALSE]
             ELSE [e |-> [w EXCEPT !.endTransCnt = 0], frame |-> FALSE]
        ELSE [e |-> w, frame |-> FALSE]

\* the body of the while loop for one byte; frame: the terminator is complete
\* and RX_ind_old, RX_ind, endTransCnt have been set for the dispatch
ReadByte(e, newData) ==
    LET buf == IF e.RX_ind \in DOMAIN e.RX_buffer
               THEN [e.RX_buffer EXCEPT ![e.RX_ind] = newData]
               ELSE e.RX_buffer
        isFF == newData = NEX_END_TRANSMISSION_VALUE
        ind == WriteOffset(e, newData)
        w == [e EXCEPT !.RX_buffer = buf, !.RX_ind = ind]
    IN  IF isFF /\ ind > 1
        THEN IF InTerminator(buf, ind, e.endTransCnt)
             THEN IF e.endTransCnt + 1 = NEX_END_TRANSMISSION_LENGTH
                  THEN [e |-> [w EXCEPT !.endTransCnt = 0, !.RX_ind_old = ind,
                                        !.RX_ind = 0],
                        frame |-> TRUE]
                  ELSE [e |-> [w EXCEPT !.endTransCnt = e.endTransCnt + 1],
                        frame |-> FALSE]
             ELSE [e |-> [w EXCEPT !.endTransCnt = 0], frame |-> FALSE]
        ELSE [e |-> [w EXCEPT !.endTransCnt = 0], frame |-> FALSE]

RECURSIVE readSerialData(_, _)
readSerialData(e, in) ==
    IF in = <<>>
    THEN [e |-> e, in |-> in, ret |-> FALSE]
    ELSE LET r == ReadByte(e, Head(in))
         IN  IF r.frame
             THEN [e |-> parseReceivedMessage(r.e), in |-> Tail(in), ret |-> TRUE]
             ELSE readSerialData(r.e, Tail(in))

\* nexLoop with a slip: it goes on reading after a frame has been dispatched
nexLoopReadsOn(e, in, millis) ==
    LET r1 == readSerialData(e, in)
        r2 == readSerialData(r1.e, r1.in)
        r3 == readSerialData(r2.e, r2.in)
    IN  [e |-> clearExpiredCommands(r3.e, millis), in |-> r3.in]

\* Nextion::nexLoop: read (and dispatch at most one frame), then sweep
nexLoop(e, in, millis) ==
    LET r == readSerialData(e, in)
    IN  [e |-> clearExpiredCommands(r.e, millis), in |-> r.in]

----------------------------------------------------------------------------
(* Issuing commands: Nextion::prepRet... and the blocking adapters.        *)

Pending == (Qwrite - Qread) % SizeMod

HandlerNames ==
    {"nextionStartupCallback", "currentPageIdCallback", "touchCoordinateCallback",
     "touchEventInSleepModeCallback", "automaticSleepCallback",
     "automaticWakeUpCallback", "nextionReadyCallback", "startSdUpgradeCallback"}

\* outer: the blocking call whose tick invoked the handler that made this
\* call (none or one, which may have an outer call itself); nested: what a
\* call made by such a handler returned
IdleCall ==
    [pc |-> "idle", fn |-> "none", arg |-> 0, saveSpot |-> 0, respSlot |-> -1,
     ret |-> TRUE, val |-> <<>>, id |-> -1, outer |-> <<>>, nested |-> <<>>]

\* event.expiration_time = millis() + timeout, in unsigned long arithmetic
ExpirationTime(millis, timeout) == (millis + timeout) % ClockMod

NewCommand(code, type, cb, fail, timeout, slot) ==
    [successReturnCode |-> code, cmdType |-> type, cb |-> cb, failCB |-> fail,
     expiration_time |-> ExpirationTime(now, timeout), response |-> slot,
     id |-> Len(issued)]

\* the non-blocking prepRetNumber / prepRetString / prepRetCode
PrepNonBlocking(event) ==
    /\ blk.pc # "wait"
    /\ Len(issued) < MaxCmds
    /\ LET r == enqueue(Engine, event)
       IN  /\ Commit(r.e)
           /\ enqRet' = r.ret
    /\ issued' = Append(issued, event)
    /\ UNCHANGED <<handlers, serial, wire, now, blk, sent>>

prepRetNumber(cb, fail, timeout) ==
    PrepNonBlocking(NewCommand(NEX_RET_NUMBER_HEAD, "CT_number", cb, fail, timeout, -1))

prepRetString(cb, fail, start_flag, timeout) ==
    PrepNonBlocking(NewCommand(NEX_RET_STRING_HEAD,
                               IF start_flag THEN "CT_stringHead"
                               ELSE "CT_stringHeadless", cb, fail, timeout, -1))

prepRetCode(code, cb, fail, timeout) ==
    PrepNonBlocking(NewCommand(code, "CT_command", cb, fail, timeout, -1))

\* prepRetNumberBlocking / prepRetStringBlocking / prepRetCodeBlocking, called
\* first thing by recvRetNumber / recvRetString / recvCommand: the callbacks
\* are null, a response slot is taken, and the caller starts to wait
PrepBlocking(fn, arg, code, type, timeout) ==
    /\ blk.pc # "wait"
    /\ Len(issued) < MaxCalls
    /\ LET g == getResponseSlot(Engine)
           event == NewCommand(code, type, FALSE, FALSE, timeout, g.slot)
           r == enqueue(g.e, event)
       IN  /\ Commit(r.e)
           /\ enqRet' = r.ret
           /\ issued' = Append(issued, event)
           /\ blk' = [pc |-> "wait", fn |-> fn, arg |-> arg,
                      saveSpot |-> r.saveSpot, respSlot |-> g.slot,
                      ret |-> r.ret, val |-> <<>>, id |-> event.id,
                      outer |-> <<>>, nested |-> <<>>]
    /\ UNCHANGED <<handlers, serial, wire, now, sent>>

recvCommandCall(command, timeout) ==
    PrepBlocking("recvCommand", command, command, "CT_command", timeout)

recvRetNumberCall(timeout) ==
    PrepBlocking("recvRetNumber", 0, NEX_RET_NUMBER_HEAD, "CT_number", timeout)

recvRetStringCall(start_flag, timeout) ==
    PrepBlocking("recvRetString", IF start_flag THEN 1 ELSE 0, NEX_RET_STRING_HEAD,
                 IF start_flag THEN "CT_stringHead" ELSE "CT_stringHeadless",
                 timeout)

\* what the three blocking adapters make of their response slot after the wait
recvCommandResult(slot, command, ret) ==
    IF command = slot.RX_buf[0] /\ slot.RX_ind = 4
    THEN [ret |-> ret, val |-> <<>>]
    ELSE [ret |-> FALSE, val |-> <<>>]

recvRetNumberResult(slot, ret) ==
    IF NEX_RET_NUMBER_HEAD = slot.RX_buf[0] /\ slot.RX_ind = 8
    THEN [ret |-> ret,
          val |-> <<Int32FromBytes(slot.RX_buf[1], slot.RX_buf[2],
                                   slot.RX_buf[3], slot.RX_buf[4])>>]
    ELSE [ret |-> FALSE, val |-> <<>>]

\* str += RX_buf[index] for index = (start_flag ? 1 : 0) .. RX_ind - 4
recvRetStringResult(slot, start_flag, ret) ==
    IF (NEX_RET_STRING_HEAD = slot.RX_buf[0] \/ ~start_flag) /\ slot.RX_ind > 4
    THEN LET index == IF start_flag THEN 1 ELSE 0
         IN  [ret |-> ret,
              val |-> [i \in 1..(slot.RX_ind - 4 - index + 1) |->
                         BufAt(slot.RX_buf, index + i - 1)]]
    ELSE [ret |-> FALSE, val |-> <<>>]

\* what the blocking call in progress returns when its wait loop ends
BlockingResult ==
    LET slot == respQ[blk.respSlot]
    IN  CASE blk.fn = "recvCommand" ->
                recvCommandResult(slot, blk.arg, blk.ret)
          [] blk.fn = "recvRetNumber" ->
                recvRetNumberResult(slot, blk.ret)
          [] OTHER ->
                recvRetStringResult(slot, blk.arg = 1, blk.ret)

\* the wait loop has ended: while (!cmdQ.passedIndex(&saveSpot)) is false
BlockingReturn ==
    /\ blk.pc = "wait"
    /\ blk.outer = <<>>
    /\ passedIndex(Engine, blk.saveSpot)
    /\ blk' = [blk EXCEPT !.pc = "done", !.ret = BlockingResult.ret,
                          !.val = BlockingResult.val]
    /\ UNCHANGED <<engineVars, handlers, serial, wire, now, sent, issued, enqRet>>

\* a global handler, invoked by the dispatch in the tick of a waiting
\* blocking call, calls recvRetNumber itself: the outer nexLoop stays
\* between its readSerialData and its clearExpiredCommands
NestedCall(timeout) ==
    /\ blk.pc = "wait"
    /\ ~passedIndex(Engine, blk.saveSpot)
    /\ Len(issued) < MaxCalls
    /\ LET r == readSerialData(Engine, serial)
           g == getResponseSlot(r.e)
           event == NewCommand(NEX_RET_NUMBER_HEAD, "CT_number", FALSE, FALSE,
                               timeout, g.slot)
           q == enqueue(g.e, event)
       IN  /\ r.ret
           /\ Len(r.e.log) > Len(log)
           /\ r.e.log[Len(r.e.log)].id = -1
           /\ r.e.log[Len(r.e.log)].ev \in HandlerNames
           /\ Commit(q.e)
           /\ serial' = r.in
           /\ enqRet' = q.ret
           /\ issued' = Append(issued, event)
           /\ blk' = [pc |-> "wait", fn |-> "recvRetNumber", arg |-> 0,
                      saveSpot |-> q.saveSpot, respSlot |-> g.slot,
                      ret |-> q.ret, val |-> <<>>, id |-> event.id,
                      outer |-> <<blk>>, nested |-> <<>>]
    /\ UNCHANGED <<handlers, wire, now, sent>>

\* the nested call returns to the handler, the handler to the outer nexLoop,
\* which ends with its clearExpiredCommands; the outer call waits on
NestedReturn ==
    /\ blk.pc = "wait"
    /\ blk.outer # <<>>
    /\ passedIndex(Engine, blk.saveSpot)
    /\ Commit(clearExpiredCommands(Engine, now))
    /\ blk' = [blk.outer[1] EXCEPT
                 !.nested = <<[id |-> blk.id, ret |-> BlockingResult.ret,
                               val |-> BlockingResult.val]>>]
    /\ UNCHANGED <<handlers, serial, wire, now, sent, issued, enqRet>>

----------------------------------------------------------------------------
(* The processing tick, the clock and the device.                          *)

\* the engine after the program has started again: the statics have their
\* initial values; the history is kept and records the restart
Restart(e) ==
    [Qread |-> 0, Qwrite |-> 0,
     eventQ |-> [i \in 0..(CMD_QUEUE_SIZE - 1) |-> ZeroCommand],
     respQ |-> [i \in 0..(RX_2ND_ARR_SIZE - 1) |-> ZeroResponse],
     respQwrite |-> 0,
     RX_buffer |-> [i \in 0..(RX_BUFFER_SIZE - 1) |-> 0],
     RX_ind |-> 0, RX_ind_old |-> 0, endTransCnt |-> 0,
     log |-> Append(e.log, [id |-> -1, ev |-> "restart", val |-> <<>>,
                            fr |-> Len(e.dispatched), RX_ind |-> 0,
                            RX_ind_old |-> 0, endTransCnt |-> 0]),
     dispatched |-> e.dispatched]

\* what a nexLoop that ends in state e can leave behind: a call through a
\* null function pointer is undefined, it may return or restart the program
Outcomes(e) ==
    IF \E i \in (Len(log) + 1)..Len(e.log) : e.log[i].ev = NullCall
    THEN {e, Restart(e)}
    ELSE {e}

\* nexLoop, called by the host loop or by the wait loop of a blocking call
Tick ==
    /\ blk.pc = "wait" => ~passedIndex(Engine, blk.saveSpot)
    /\ LET r == nexLoop(Engine, serial, now)
       IN  \E o \in Outcomes(r.e) :
              /\ Commit(o)
              /\ serial' = r.in
              /\ blk' = IF o = r.e THEN blk ELSE IdleCall
    /\ UNCHANGED <<handlers, wire, now, sent, issued, enqRet>>

AdvanceTime ==
    /\ now < MaxTime
    /\ now' = now + 1
    /\ UNCHANGED <<engineVars, handlers, serial, wire, blk, sent, issued, enqRet>>

\* the device sends a frame and all of its bytes arrive
Recv(f) ==
    /\ Len(sent) < MaxFrames
    /\ wire = <<>>
    /\ serial' = serial \o f
    /\ sent' = Append(sent, f)
    /\ UNCHANGED <<engineVars, handlers, wire, now, blk, issued, enqRet>>

\* one byte of what the device sent arrives
Arrive ==
    /\ wire # <<>>
    /\ serial' = Append(serial, Head(wire))
    /\ wire' = Tail(wire)
    /\ UNCHANGED <<engineVars, handlers, now, blk, sent, issued, enqRet>>

Frame(payload) == payload \o Terminator

InitEngine ==
    /\ Qread = 0
    /\ Qwrite = 0
    /\ eventQ = [i \in 0..(CMD_QUEUE_SIZE - 1) |-> ZeroCommand]
    /\ respQ = [i \in 0..(RX_2ND_ARR_SIZE - 1) |-> ZeroResponse]
    /\ respQwrite = 0
    /\ RX_buffer = [i \in 0..(RX_BUFFER_SIZE - 1) |-> 0]
    /\ RX_ind = 0
    /\ RX_ind_old = 0
    /\ endTransCnt = 0
    /\ log = <<>>
    /\ dispatched = <<>>

Init ==
    /\ InitEngine
    /\ handlers = HandlerNames
    /\ serial = <<>>
    /\ wire = <<>>
    /\ now = 0
    /\ blk = IdleCall
    /\ sent = <<>>
    /\ issued = <<>>
    /\ enqRet = TRUE

Timeouts == 1..MaxTimeout

----------------------------------------------------------------------------
(* Spec: the non-blocking engine with acknowledged commands.               *)

Next ==
    \/ \E cb \in BOOLEAN, fail \in BOOLEAN, t \in Timeouts :
          prepRetCode(NEX_RET_CMD_FINISHED_OK, cb, fail, t)
    \/ Recv(Frame(<<NEX_RET_CMD_FINISHED_OK>>))
    \/ Tick
    \/ AdvanceTime

Spec == Init /\ [][Next]_vars

----------------------------------------------------------------------------
(* SpecOrdered: at most CMD_QUEUE_SIZE commands are issued back to back,   *)
(* then the device answers them in issue order, each reply matching its    *)
(* command and arriving before the command's deadline.                     *)

NumberPayloads == {<<1, 2, 3, 4>>, <<255, 255, 255, 255>>}
StringPayloads == {<<>>, <<65>>, <<65, 66>>}

\* the reply frames the device may answer a command with
MatchingReplies(c) ==
    CASE c.cmdType = "CT_command" -> {Frame(<<c.successReturnCode>>)}
      [] c.cmdType = "CT_number" ->
            {Frame(<<NEX_RET_NUMBER_HEAD>> \o d) : d \in NumberPayloads}
      [] c.cmdType = "CT_stringHead" ->
            {Frame(<<NEX_RET_STRING_HEAD>> \o s) : s \in StringPayloads}
      [] OTHER -> {Frame(s) : s \in StringPayloads \ {<<>>}}

DeviceReply ==
    /\ Len(sent) < Len(issued)
    /\ now < issued[Len(sent) + 1].expiration_time
    /\ \E f \in MatchingReplies(issued[Len(sent) + 1]) :
          /\ serial' = serial \o f
          /\ sent' = Append(sent, f)
    /\ UNCHANGED <<engineVars, handlers, wire, now, blk, issued, enqRet>>

BackToBack == sent = <<>> /\ Len(issued) < CMD_QUEUE_SIZE

NextOrdered ==
    \/ \E t \in Timeouts :
          BackToBack /\ prepRetCode(NEX_RET_CMD_FINISHED_OK, TRUE, TRUE, t)
    \/ \E t \in Timeouts : BackToBack /\ prepRetNumber(TRUE, TRUE, t)
    \/ \E hd \in BOOLEAN, t \in Timeouts :
          BackToBack /\ prepRetString(TRUE, TRUE, hd, t)
    \/ DeviceReply
    \/ Tick
    \/ AdvanceTime

SpecOrdered == Init /\ [][NextOrdered]_vars

----------------------------------------------------------------------------
(* SpecBlockCmd: blocking recvCommand calls, one after the other, with the *)
(* acknowledgement frames and the invalid-instruction frame.               *)

AckCodes == {NEX_RET_CMD_FINISHED_OK, Nex_RET_TRANSPARENT_DATA_READY,
             Nex_RET_TRANSPARENT_DATA_FINISHED}

NextBlockCmd ==
    \/ \E c \in AckCodes, t \in Timeouts : recvCommandCall(c, t)
    \/ \E c \in AckCodes \cup {NEX_RET_EVENT_NEXTION_STARTUP} : Recv(Frame(<<c>>))
    \/ Tick
    \/ AdvanceTime
    \/ BlockingReturn

SpecBlockCmd == Init /\ [][NextBlockCmd]_vars

----------------------------------------------------------------------------
(* SpecBlockValue: blocking recvRetNumber and recvRetString calls with     *)
(* numeric and string replies.                                             *)

ValueReplies ==
    {Frame(<<NEX_RET_NUMBER_HEAD>> \o d) : d \in NumberPayloads}
    \cup {Frame(<<NEX_RET_STRING_HEAD>> \o s) : s \in StringPayloads}
    \cup {Frame(s) : s \in StringPayloads \ {<<>>}}

NextBlockValue ==
    \/ \E t \in Timeouts : recvRetNumberCall(t)
    \/ \E hd \in BOOLEAN, t \in Timeouts : recvRetStringCall(hd, t)
    \/ \E f \in ValueReplies : Recv(f)
    \/ Tick
    \/ AdvanceTime
    \/ BlockingReturn

SpecBlockValue == Init /\ [][NextBlockValue]_vars

----------------------------------------------------------------------------
(* SpecNumeric: a number command is pending and the device sends one       *)
(* numeric reply, whose bytes arrive one at a time.                        *)

PayloadBytes == {0, 1, 113, 127, 128, 255}

InitNumeric ==
    \E fail \in BOOLEAN, d1 \in PayloadBytes, d2 \in PayloadBytes,
       d3 \in PayloadBytes, d4 \in PayloadBytes :
       LET c == [successReturnCode |-> NEX_RET_NUMBER_HEAD,
                 cmdType |-> "CT_number", cb |-> TRUE, failCB |-> fail,
                 expiration_time |-> ExpirationTime(0, MaxTimeout),
                 response |-> -1, id |-> 0]
           f == Frame(<<NEX_RET_NUMBER_HEAD, d1, d2, d3, d4>>)
       IN  /\ Qread = 0
           /\ Qwrite = 1
           /\ eventQ = [i \in 0..(CMD_QUEUE_SIZE - 1) |->
                          IF i = 0 THEN c ELSE ZeroCommand]
           /\ respQ = [i \in 0..(RX_2ND_ARR_SIZE - 1) |-> ZeroResponse]
           /\ respQwrite = 0
           /\ RX_buffer = [i \in 0..(RX_BUFFER_SIZE - 1) |-> 0]
           /\ RX_ind = 0
           /\ RX_ind_old = 0
           /\ endTransCnt = 0
           /\ log = <<>>
           /\ dispatched = <<>>
           /\ handlers = HandlerNames
           /\ serial = <<>>
           /\ wire = f
           /\ now = 0
           /\ blk = IdleCall
           /\ sent = <<f>>
           /\ issued = <<c>>
           /\ enqRet = TRUE

NextNumeric ==
    \/ Arrive
    \/ Tick

SpecNumeric == InitNumeric /\ [][NextNumeric]_vars

----------------------------------------------------------------------------
(* SpecDispatch: non-blocking commands of every kind, with and without a   *)
(* failure target, against acknowledgement, string, number and             *)
(* unrecognised frames.                                                    *)

DispatchFrames ==
    {Frame(<<NEX_RET_CMD_FINISHED_OK>>),
     Frame(<<NEX_RET_STRING_HEAD, 65>>),
     Frame(<<NEX_RET_NUMBER_HEAD, 1, 2, 3, 4>>),
     Frame(<<65>>),
     Frame(<<Nex_RET_TRANSPARENT_DATA_READY>>)}

\* the queue is kept from overflowing here; Spec explores the overflow
Room == Pending < CMD_QUEUE_SIZE

NextDispatch ==
    \/ \E fail \in BOOLEAN :
          Room /\ prepRetCode(NEX_RET_CMD_FINISHED_OK, TRUE, fail, MaxTimeout)
    \/ Room /\ prepRetCode(Nex_RET_TRANSPARENT_DATA_READY, TRUE, TRUE, MaxTimeout)
    \/ Room /\ prepRetNumber(TRUE, TRUE, MaxTimeout)
    \/ \E hd \in BOOLEAN : Room /\ prepRetString(TRUE, TRUE, hd, MaxTimeout)
    \/ \E f \in DispatchFrames : Recv(f)
    \/ Tick

SpecDispatch == Init /\ [][NextDispatch]_vars

----------------------------------------------------------------------------
(* SpecFailCodes: pending commands with a failure target and the           *)
(* failure-reason frames.                                                  *)

NextFailCodes ==
    \/ Room /\ prepRetCode(NEX_RET_CMD_FINISHED_OK, TRUE, TRUE, MaxTimeout)
    \/ Room /\ prepRetNumber(TRUE, TRUE, MaxTimeout)
    \/ Room /\ prepRetString(TRUE, TRUE, TRUE, MaxTimeout)
    \/ \E c \in FailureCodes : Recv(Frame(<<c>>))
    \/ Tick

SpecFailCodes == Init /\ [][NextFailCodes]_vars

----------------------------------------------------------------------------
(* Reading the history.                                                    *)

\* the command issued with issue index id
Issued(id) == issued[id + 1]

\* entry i of the history is a command taken out of the queue by a frame
ByFrame(i) == log[i].id >= 0 /\ log[i].ev \notin {"sweep", "drain"}

\* entry i of the history is a command taken out by clearExpiredCommands
BySweep(i) == log[i].id >= 0 /\ log[i].ev = "sweep"

\* the frame that caused entry i
FrameOf(i) == dispatched[log[i].fr]

\* the step hands a frame to parseReceivedMessage
DispatchStep == Len(dispatched') = Len(dispatched) + 1

\* the frame the step dispatches
NewFrame == dispatched'[Len(dispatched')]

\* the history entries the step adds
NewEntries == SubSeq(log', Len(log) + 1, Len(log'))

\* the step takes command c out of the queue because of a frame, with
\* delivery ev and value val
Pops(c, ev, val) ==
    \E k \in 1..Len(NewEntries) :
        /\ NewEntries[k].id = c.id
        /\ NewEntries[k].ev = ev
        /\ NewEntries[k].val = val

\* the step takes no command out of the queue because of a frame
PopsNothing ==
    \A k \in 1..Len(NewEntries) : NewEntries[k].ev = "sweep"

\* the leading bytes parseReceivedMessage has a case for
RecognisedCodes ==
    {NEX_RET_EVENT_NEXTION_STARTUP, NEX_RET_CMD_FINISHED_OK,
     NEX_RET_SERIAL_BUFFER_OVERFLOW, NEX_RET_EVENT_TOUCH_HEAD,
     NEX_RET_CURRENT_PAGE_ID_HEAD, NEX_RET_STRING_HEAD, NEX_RET_NUMBER_HEAD,
     NEX_RET_EVENT_POSITION_HEAD, NEX_RET_EVENT_SLEEP_POSITION_HEAD,
     NEX_RET_AUTOMATIC_SLEEP, NEX_RET_AUTOMATIC_WAKE_UP,
     NEX_RET_EVENT_NEXTION_READY, NEX_RET_START_SD_UPGRADE}

\* the history entries of commands, in the order they left the queue
CommandLog == SelectSeq(log, LAMBDA x : x.id >= 0)

----------------------------------------------------------------------------
(* C2: an enqueue while CMD_QUEUE_SIZE commands are pending returns false  *)
(* and leaves the slots of the pending commands as they are.               *)
C2_EnqueueFullRejects ==
    [][(Len(issued') > Len(issued) /\ Pending = CMD_QUEUE_SIZE)
         => (enqRet' = FALSE /\ eventQ' = eventQ)]_vars

(* C7: a command with a failure target that the sweeper reclaims has its   *)
(* failure target invoked, with an indicator that is no device code.       *)
C7_SweepInvokesFailure ==
    \A i \in 1..Len(log) :
        (BySweep(i) /\ Issued(log[i].id).failCB)
            => \E j \in 1..Len(log) :
                  /\ log[j].id = log[i].id
                  /\ log[j].ev = "fail"
                  /\ log[j].val # <<>>
                  /\ log[j].val[1] \notin 0..255

----------------------------------------------------------------------------
\* the bytes of the 32-bit two's complement little-endian encoding of v
EncodeInt32(v) ==
    <<v % 256, (v \div 256) % 256, (v \div 65536) % 256, (v \div 16777216) % 256>>

\* history entry ent is the delivery that reply f owes to command c
Delivered(ent, c, f) ==
    CASE c.cmdType = "CT_command" -> ent.ev = "succ"
      [] c.cmdType = "CT_number" ->
            /\ ent.ev = "num"
            /\ Len(ent.val) = 1
            /\ EncodeInt32(ent.val[1]) = SubSeq(f, 2, 5)
      [] c.cmdType = "CT_stringHead" ->
            ent.ev = "str" /\ ent.val = SubSeq(f, 2, Len(f) - 3)
      [] OTHER ->
            ent.ev = "str" /\ ent.val = SubSeq(f, 1, Len(f) - 3)

(* C1: when every issued command has been answered in order and in time    *)
(* and all replies have been dispatched, every command's delivery target   *)
(* has fired exactly once, with its own reply's payload, in issue order.   *)
C1_InOrderDelivery ==
    (Len(sent) = Len(issued) /\ serial = <<>> /\ Len(dispatched) = Len(sent))
        => /\ Len(log) = Len(issued)
           /\ \A k \in 1..Len(issued) :
                 /\ log[k].id = k - 1
                 /\ Delivered(log[k], issued[k], sent[k])

----------------------------------------------------------------------------
(* C8: a 0x01, 0x70 or 0x71 frame that pops a command expecting another    *)
(* code invokes the command's failure target (when it has one) with the    *)
(* received leading byte; the frame consumes that one command only, and    *)
(* commands keep leaving the queue in issue order afterwards.              *)
C8_MismatchFails ==
    /\ \A i \in 1..Len(log) :
          (/\ ByFrame(i)
           /\ FrameOf(i)[1] \in {NEX_RET_CMD_FINISHED_OK, NEX_RET_STRING_HEAD,
                                 NEX_RET_NUMBER_HEAD}
           /\ FrameOf(i)[1] # Issued(log[i].id).successReturnCode
           /\ Issued(log[i].id).failCB)
              => /\ log[i].ev = "fail"
                 /\ log[i].val = <<FrameOf(i)[1]>>
                 /\ \A j \in 1..Len(log) :
                       (ByFrame(j) /\ log[j].fr = log[i].fr) => j = i
    /\ \A k \in 1..Len(CommandLog) : CommandLog[k].id = k - 1

\* a mismatch has happened and the next reply went to the next command
C8_Witness ==
    \E i \in 1..Len(log) :
        /\ ByFrame(i)
        /\ FrameOf(i)[1] = NEX_RET_NUMBER_HEAD
        /\ Issued(log[i].id).cmdType = "CT_command"
        /\ log[i].ev = "fail"
        /\ i < Len(log)
        /\ log[i + 1].id = log[i].id + 1
        /\ log[i + 1].ev \in {"succ", "num", "str"}

C10_FailureCodeFails ==
    [][(/\ DispatchStep
        /\ \E c \in FailureCodes : NewFrame = Frame(<<c>>)
        /\ ~isEmpty(Engine)
        /\ peek(Engine).cmdType # "CT_stringHeadless"
        /\ peek(Engine).failCB)
         => Pops(peek(Engine), "fail", <<NewFrame[1]>>)]_vars

----------------------------------------------------------------------------
(* C5: the frame 0x71 d0 d1 d2 d3 0xFF 0xFF 0xFF, fed byte by byte while a *)
(* number command is pending, is dispatched once, whole (8 bytes), only    *)
(* when all its bytes have been read; it consumes that command and hands   *)
(* its number target the value whose 32-bit little-endian two's complement *)
(* encoding is d0 d1 d2 d3.                                                *)
C5_NumericRoundTrip ==
    /\ Len(dispatched) <= 1
    /\ (wire = <<>> /\ serial = <<>>) => Len(dispatched) = 1
    /\ Len(dispatched) = 1 =>
          /\ dispatched[1] = sent[1]
          /\ RX_ind_old = 8
          /\ RX_ind = 0
          /\ endTransCnt = 0
          /\ Qread = 1
          /\ Len(log) = 1
          /\ log[1].id = 0
          /\ log[1].ev = "num"
          /\ Len(log[1].val) = 1
          /\ log[1].val[1] >= -2147483647 - 1
          /\ log[1].val[1] <= 2147483647
          /\ EncodeInt32(log[1].val[1]) = SubSeq(sent[1], 2, 5)
    /\ Len(dispatched) = 0 => (log = <<>> /\ Qread = 0)

\* the payload FF FF FF FF has been delivered as -1
C5_Witness ==
    /\ sent[1] = Frame(<<NEX_RET_NUMBER_HEAD, 255, 255, 255, 255>>)
    /\ Len(log) = 1
    /\ log[1].ev = "num"
    /\ log[1].val = <<-1>>

----------------------------------------------------------------------------
\* frame f has the leading byte and the length the blocking call waits for
ExpectedShape(call, f) ==
    CASE call.fn = "recvCommand" -> f[1] = call.arg /\ Len(f) = 4
      [] call.fn = "recvRetNumber" -> f[1] = NEX_RET_NUMBER_HEAD /\ Len(f) = 8
      [] OTHER -> (call.arg = 1 => f[1] = NEX_RET_STRING_HEAD) /\ Len(f) >= 4

\* the frame (if any) that took the blocking call's own command out of the queue
OwnFrames ==
    {FrameOf(i) : i \in {j \in 1..Len(log) : ByFrame(j) /\ log[j].id = blk.id}}

(* C3: a blocking call returns true only if its own command was consumed   *)
(* by a received frame with the expected leading byte and length.          *)
C3_TrueOnlyIfOwnReply ==
    (blk.pc = "done" /\ blk.ret)
        => \E f \in OwnFrames : ExpectedShape(blk, f)

(* C4: recvCommand(c) returns true whenever the frame {c, 0xFF, 0xFF,      *)
(* 0xFF} was received for its command before the deadline.                 *)
C4_AckReturnsTrue ==
    (blk.pc = "done" /\ blk.fn = "recvCommand"
       /\ Frame(<<blk.arg>>) \in OwnFrames)
        => blk.ret

\* what the non-blocking twin of command c delivers when frame f is
\* dispatched to it: parseReceivedMessage on a queue holding only the twin
NonBlockingDelivery(c, f) ==
    LET twin == [c EXCEPT !.cb = TRUE, !.response = -1]
        e == [Qread |-> 0, Qwrite |-> 1,
              eventQ |-> [i \in 0..(CMD_QUEUE_SIZE - 1) |-> twin],
              respQ |-> [i \in 0..(RX_2ND_ARR_SIZE - 1) |-> ZeroResponse],
              respQwrite |-> 0,
              RX_buffer |-> [i \in 0..(RX_BUFFER_SIZE - 1) |->
                               IF i < Len(f) THEN f[i + 1] ELSE 0],
              RX_ind |-> 0, RX_ind_old |-> Len(f), endTransCnt |-> 0,
              log |-> <<>>, dispatched |-> <<>>]
    IN  parseReceivedMessage(e).log[1]

(* C6: for every reply frame matching its command the blocking call        *)
(* returns true with exactly the value the non-blocking number or string   *)
(* target receives for that frame.                                         *)
C6_BlockingEqualsNonBlocking ==
    \A f \in OwnFrames :
        (blk.pc = "done" /\ f \in MatchingReplies(Issued(blk.id)))
            => /\ blk.ret
               /\ blk.val = NonBlockingDelivery(Issued(blk.id), f).val

----------------------------------------------------------------------------
(* SpecEvents: commands of the non-blocking and of the blocking kind, the  *)
(* replies to them in issue order, and unsolicited frames of every type in *)
(* between, for several sets of registered handlers.                       *)

StartupFrame == Frame(<<NEX_RET_EVENT_NEXTION_STARTUP, 0, 0>>)

EventFrames ==
    {StartupFrame,
     Frame(<<NEX_RET_EVENT_TOUCH_HEAD, 0, 1, 1>>),
     Frame(<<NEX_RET_CURRENT_PAGE_ID_HEAD, 1>>),
     Frame(<<NEX_RET_EVENT_POSITION_HEAD, 1, 0, 2, 0, 1>>),
     Frame(<<NEX_RET_EVENT_SLEEP_POSITION_HEAD, 1, 0, 2, 0, 1>>),
     Frame(<<NEX_RET_AUTOMATIC_SLEEP>>),
     Frame(<<NEX_RET_AUTOMATIC_WAKE_UP>>),
     Frame(<<NEX_RET_EVENT_NEXTION_READY>>),
     Frame(<<NEX_RET_START_SD_UPGRADE>>)}

\* the sets of registered handlers explored
HandlerSets ==
    {HandlerNames \ S : S \in SUBSET {"touchCoordinateCallback",
                                      "touchEventInSleepModeCallback",
                                      "currentPageIdCallback"}}
    \cup {{}}

InitEvents ==
    /\ InitEngine
    /\ handlers \in HandlerSets
    /\ serial = <<>>
    /\ wire = <<>>
    /\ now = 0
    /\ blk = IdleCall
    /\ sent = <<>>
    /\ issued = <<>>
    /\ enqRet = TRUE

\* the device sends frame f and all of its bytes arrive
Send(f) ==
    /\ Len(sent) < MaxFrames + 1
    /\ serial' = serial \o f
    /\ sent' = Append(sent, f)
    /\ UNCHANGED <<engineVars, handlers, wire, now, blk, issued, enqRet>>

\* the replies among the frames sent, in order
Replies == SelectSeq(sent, LAMBDA f : f \notin EventFrames)

EventArrives == \E f \in EventFrames : Send(f)

\* the device answers the oldest command it has not answered yet
ReplyArrives ==
    /\ Len(Replies) < Len(issued)
    /\ \E f \in MatchingReplies(issued[Len(Replies) + 1]) :
          Len(f) > 4 /\ Send(f)

NextEvents ==
    \/ Room /\ prepRetNumber(TRUE, TRUE, MaxTimeout)
    \/ Room /\ prepRetString(TRUE, TRUE, TRUE, MaxTimeout)
    \/ Room /\ recvRetNumberCall(MaxTimeout)
    \/ EventArrives
    \/ ReplyArrives
    \/ Tick
    \/ BlockingReturn

SpecEvents == InitEvents /\ [][NextEvents]_vars

\* the global handler parseReceivedMessage has for an unsolicited frame
HandlerOf(f) ==
    CASE f = StartupFrame -> "nextionStartupCallback"
      [] f[1] = NEX_RET_EVENT_TOUCH_HEAD -> "NexTouch::iterate"
      [] f[1] = NEX_RET_CURRENT_PAGE_ID_HEAD -> "currentPageIdCallback"
      [] f[1] = NEX_RET_EVENT_POSITION_HEAD -> "touchCoordinateCallback"
      [] f[1] = NEX_RET_EVENT_SLEEP_POSITION_HEAD -> "touchEventInSleepModeCallback"
      [] f[1] = NEX_RET_AUTOMATIC_SLEEP -> "automaticSleepCallback"
      [] f[1] = NEX_RET_AUTOMATIC_WAKE_UP -> "automaticWakeUpCallback"
      [] f[1] = NEX_RET_EVENT_NEXTION_READY -> "nextionReadyCallback"
      [] OTHER -> "startSdUpgradeCallback"

\* the step leaves the Command Queue and the Response Store as they are
QueuesUnchanged ==
    /\ Qread' = Qread
    /\ Qwrite' = Qwrite
    /\ eventQ' = eventQ
    /\ respQ' = respQ
    /\ respQwrite' = respQwrite

\* every command a frame took out of the queue was taken out by its own reply
OwnReplies ==
    \A i \in 1..Len(log) :
        ByFrame(i) => (/\ log[i].id + 1 <= Len(Replies)
                       /\ FrameOf(i) = Replies[log[i].id + 1])

(* C11: the dispatch of an unsolicited frame leaves the Command Queue and  *)
(* the Response Store unchanged, and with unsolicited frames between the   *)
(* replies every reply still goes to the command it answers.               *)
C11_EventsLeaveQueue ==
    /\ []OwnReplies
    /\ [][(DispatchStep /\ NewFrame \in EventFrames) => QueuesUnchanged]_vars

(* C12: an unsolicited frame invokes the handler of its type if and only   *)
(* if that handler is registered, and invokes nothing else.                *)
C12_HandlerIffRegistered ==
    [][(DispatchStep /\ NewFrame \in EventFrames
          /\ NewFrame[1] # NEX_RET_EVENT_TOUCH_HEAD)
         => /\ (HandlerOf(NewFrame) \in handlers)
                  <=> (\E k \in 1..Len(NewEntries) :
                          NewEntries[k].ev = HandlerOf(NewFrame))
            /\ \A k \in 1..Len(NewEntries) :
                  NewEntries[k].id = -1 => NewEntries[k].ev = HandlerOf(NewFrame)]_vars

----------------------------------------------------------------------------
(* SpecNested: a blocking recvRetNumber whose tick dispatches a page-id     *)
(* event; the event's handler calls recvRetNumber itself.  The device       *)
(* answers the commands in issue order, each before its deadline.          *)

PageFrame == Frame(<<NEX_RET_CURRENT_PAGE_ID_HEAD, 1>>)

\* the device answers the oldest unanswered command before its deadline
ReplyInTime ==
    /\ Len(Replies) < Len(issued)
    /\ now < issued[Len(Replies) + 1].expiration_time
    /\ \E f \in MatchingReplies(issued[Len(Replies) + 1]) : Send(f)

NextNested ==
    \/ \E t \in Timeouts : recvRetNumberCall(t)
    \/ \E t \in Timeouts : NestedCall(t)
    \/ Send(PageFrame)
    \/ ReplyInTime
    \/ Tick
    \/ AdvanceTime
    \/ BlockingReturn
    \/ NestedReturn

SpecNested == Init /\ [][NextNested]_vars

\* the value a numeric reply frame carries
NumberOf(f) == <<Int32FromBytes(f[2], f[3], f[4], f[5])>>

(* C13: when a handler invoked in the tick of a waiting blocking call has  *)
(* made a blocking call itself and the device has answered both commands   *)
(* in issue order before their deadlines, both calls return true, each     *)
(* with the value of the reply to its own command.                         *)
C13_NestedBothSucceed ==
    (blk.pc = "done" /\ blk.nested # <<>>
       /\ Len(Replies) > blk.nested[1].id)
        => /\ blk.ret
           /\ blk.val = NumberOf(Replies[blk.id + 1])
           /\ blk.nested[1].ret
           /\ blk.nested[1].val = NumberOf(Replies[blk.nested[1].id + 1])

----------------------------------------------------------------------------
(* SpecDeadline: non-blocking commands and blocking recvCommand calls with *)
(* different timeouts, acknowledgements, and the clock.                    *)

NextDeadline ==
    \/ \E t \in Timeouts : prepRetCode(NEX_RET_CMD_FINISHED_OK, TRUE, TRUE, t)
    \/ \E t \in Timeouts : recvCommandCall(NEX_RET_CMD_FINISHED_OK, t)
    \/ Recv(Frame(<<NEX_RET_CMD_FINISHED_OK>>))
    \/ Tick
    \/ AdvanceTime
    \/ BlockingReturn

SpecDeadline == Init /\ [][NextDeadline]_vars

\* the step is a nexLoop made by the wait loop of the blocking call
WaitTick ==
    /\ blk.pc = "wait"
    /\ blk' = blk
    /\ now' = now
    /\ sent' = sent
    /\ issued' = issued
    /\ wire' = wire

\* the wait loop of the blocking call ends after the step
PassedAfter ==
    passedIndex([Qread |-> Qread', Qwrite |-> Qwrite'], blk.saveSpot)

(* C14: a nexLoop made by a waiting blocking call at or after the call's   *)
(* own deadline ends the wait, whatever is pending ahead of its command.   *)
C14_ReturnsAtOwnDeadline ==
    [][(WaitTick /\ now >= Issued(blk.id).expiration_time) => PassedAfter]_vars

----------------------------------------------------------------------------
(* SpecLive: blocking recvCommand calls behind non-blocking commands that  *)
(* the device never answers, in a program that has issued and consumed no  *)
(* command yet or SizeMod - 1 of them.  The wait loop keeps calling        *)
(* nexLoop and the clock runs on past every deadline.                      *)

\* the number of commands issued and consumed before the exploration starts
StartCounters == {0, SizeMod - 1}

InitWrap ==
    /\ \E q \in StartCounters : Qread = q /\ Qwrite = q
    /\ eventQ = [i \in 0..(CMD_QUEUE_SIZE - 1) |-> ZeroCommand]
    /\ respQ = [i \in 0..(RX_2ND_ARR_SIZE - 1) |-> ZeroResponse]
    /\ respQwrite = 0
    /\ RX_buffer = [i \in 0..(RX_BUFFER_SIZE - 1) |-> 0]
    /\ RX_ind = 0
    /\ RX_ind_old = 0
    /\ endTransCnt = 0
    /\ log = <<>>
    /\ dispatched = <<>>
    /\ handlers = HandlerNames
    /\ serial = <<>>
    /\ wire = <<>>
    /\ now = 0
    /\ blk = IdleCall
    /\ sent = <<>>
    /\ issued = <<>>
    /\ enqRet = TRUE

\* the clock runs on until every deadline given has passed
AdvanceLive ==
    /\ now < MaxTime + MaxTimeout
    /\ now' = now + 1
    /\ UNCHANGED <<engineVars, handlers, serial, wire, blk, sent, issued, enqRet>>

\* commands are issued while the clock is within MaxTime
InTime == now <= MaxTime

NextLive ==
    \/ \E t \in Timeouts :
          InTime /\ Room /\ prepRetCode(NEX_RET_CMD_FINISHED_OK, TRUE, TRUE, t)
    \/ \E t \in Timeouts :
          InTime /\ Room /\ recvCommandCall(NEX_RET_CMD_FINISHED_OK, t)
    \/ Tick
    \/ AdvanceLive
    \/ BlockingReturn

SpecLive ==
    /\ InitWrap
    /\ [][NextLive]_vars
    /\ WF_vars(Tick)
    /\ WF_vars(AdvanceLive)
    /\ WF_vars(BlockingReturn)

(* C15: every blocking call that waits eventually returns.                 *)
C15_BlockingTerminates == (blk.pc = "wait") ~> (blk.pc = "done")

----------------------------------------------------------------------------
(* SpecAck: one command expecting 0x01 at a time; the device acknowledges  *)
(* it before its deadline, and sends unsolicited frames at any time.       *)

NextAck ==
    \/ \E t \in Timeouts :
          Pending = 0 /\ prepRetCode(NEX_RET_CMD_FINISHED_OK, TRUE, TRUE, t)
    \/ Send(PageFrame)
    \/ Send(Frame(<<NEX_RET_AUTOMATIC_SLEEP>>))
    \/ ReplyInTime
    \/ Tick
    \/ AdvanceTime

SpecAck == Init /\ [][NextAck]_vars

\* the history entries of the command with issue index id
EntriesOf(id) == {i \in 1..Len(log) : log[i].id = id}

(* C16: a command expecting 0x01 whose acknowledgement arrived before its  *)
(* deadline is never reclaimed by the sweeper and gets no failure          *)
(* delivery; once the input has been read its success target has fired     *)
(* exactly once.                                                           *)
C16_AckInTimeSucceeds ==
    \A k \in 1..Len(Replies) :
        /\ \A i \in EntriesOf(k - 1) : log[i].ev = "succ"
        /\ serial = <<>> => Cardinality(EntriesOf(k - 1)) = 1

----------------------------------------------------------------------------
(* SpecSlots: blocking recvRetNumber calls nested in handlers to any depth *)
(* the number of calls allows, so that more commands with a response slot  *)
(* are pending than the Response Store has slots.                          *)

NextSlots ==
    \/ recvRetNumberCall(MaxTimeout)
    \/ NestedCall(MaxTimeout)
    \/ Send(PageFrame)
    \/ ReplyInTime
    \/ Tick
    \/ BlockingReturn
    \/ NestedReturn

SpecSlots == Init /\ [][NextSlots]_vars

\* the issue indices of the commands between the read and the write cursor
\* (the counters start at 0 and do not wrap here)
PendingIds == {k \in 0..(Len(issued) - 1) : Qread <= k /\ k < Qwrite}

\* the response slots referenced by pending commands
SlotsInUse == {Issued(k).response : k \in PendingIds} \ {-1}

NoSharedSlot ==
    \A i \in PendingIds, j \in PendingIds :
        (i # j /\ Issued(i).response # -1)
            => Issued(i).response # Issued(j).response

\* the step issues a blocking command
ReserveStep == Len(issued') = Len(issued) + 1 /\ blk'.id = Len(issued)

(* C17: no two pending commands share a response slot, and a blocking call *)
(* issued while every slot is referenced by a pending command is told so:  *)
(* the reservation returns false.                                          *)
C17_SlotNotShared ==
    /\ []NoSharedSlot
    /\ [][(ReserveStep /\ Cardinality(SlotsInUse) = RX_2ND_ARR_SIZE)
            => ~blk'.ret]_vars

----------------------------------------------------------------------------
(* Nextion::resetSerialReader                                              *)

\* while (!cmdQ.isEmpty()) cmdQ.dequeuePtr();
RECURSIVE DrainQueue(_)
DrainQueue(e) ==
    IF isEmpty(e) THEN e
    ELSE DrainQueue(Ev(dequeue(e), peek(e).id, "drain", <<>>))

\* resetSerialReader with a slip: the write offset is left where it is
resetSerialReaderKeepsOffset(e) ==
    DrainQueue(Ev([e EXCEPT !.endTransCnt = 0], -1, "resetSerialReader", <<>>))

resetSerialReader(e) ==
    DrainQueue(Ev([e EXCEPT !.RX_ind = 0, !.endTransCnt = 0],
                  -1, "resetSerialReader", <<>>))

\* the resets made so far
Resets == {i \in 1..Len(log) : log[i].ev = "resetSerialReader"}

\* resets and commands explored with resets
MaxResets == 2

ResetCall ==
    /\ Cardinality(Resets) < MaxResets
    /\ Commit(resetSerialReader(Engine))
    /\ UNCHANGED <<handlers, serial, wire, now, blk, sent, issued, enqRet>>

\* the device sends frame f; its bytes arrive one at a time
Transmit(f) ==
    /\ Len(sent) < MaxFrames
    /\ wire = <<>>
    /\ wire' = f
    /\ sent' = Append(sent, f)
    /\ UNCHANGED <<engineVars, handlers, serial, now, blk, issued, enqRet>>

ResetFrames ==
    {Frame(<<NEX_RET_NUMBER_HEAD, 1, 255, 255, 255>>), PageFrame}

(* SpecReset: commands, frames arriving byte by byte, ticks, and           *)
(* resetSerialReader at any moment.                                        *)
NextReset ==
    \/ Len(issued) < MaxResets
          /\ prepRetCode(NEX_RET_CMD_FINISHED_OK, TRUE, TRUE, MaxTimeout)
    \/ \E f \in ResetFrames : Transmit(f)
    \/ Arrive
    \/ Tick
    \/ ResetCall

SpecReset == Init /\ [][NextReset]_vars

\* the step is a call of resetSerialReader
ResetStep ==
    Len(log') > Len(log) /\ log'[Len(log) + 1].ev = "resetSerialReader"

\* the engine after the step
EngineAfter ==
    [Qread |-> Qread', Qwrite |-> Qwrite', eventQ |-> eventQ', respQ |-> respQ',
     respQwrite |-> respQwrite', RX_buffer |-> RX_buffer', RX_ind |-> RX_ind',
     RX_ind_old |-> RX_ind_old', endTransCnt |-> endTransCnt', log |-> log',
     dispatched |-> dispatched']

\* the bytes of f, read by readSerialData in state e, are dispatched as the
\* frame f and nothing of them is left over
ReadsAsFrame(e, f) ==
    LET r == readSerialData(e, f)
    IN  /\ r.ret
        /\ r.in = <<>>
        /\ Len(r.e.dispatched) = Len(e.dispatched) + 1
        /\ r.e.dispatched[Len(r.e.dispatched)] = f
        /\ r.e.RX_ind = 0
        /\ r.e.endTransCnt = 0

(* C18: resetSerialReader leaves the Command Queue empty and the write     *)
(* offset and the terminator run counter at 0; the commands it drains get  *)
(* no delivery; the bytes read next are decoded as a frame from its start. *)
C18_ResetClears ==
    [][ResetStep
         => /\ Qread' = Qwrite'
            /\ RX_ind' = 0
            /\ endTransCnt' = 0
            /\ Len(NewEntries) = 1 + Pending
            /\ \A k \in 2..Len(NewEntries) :
                  /\ NewEntries[k].ev = "drain"
                  /\ NewEntries[k].id = eventQ[(Qread + k - 2) % CMD_QUEUE_SIZE].id
            /\ \A f \in ResetFrames : ReadsAsFrame(EngineAfter, f)]_vars

\* a reset in the middle of a frame has drained a pending command, and the
\* rest of that frame has been read and dispatched as a frame of its own
C18_Witness ==
    \E i \in Resets :
        /\ i < Len(log)
        /\ log[i + 1].ev = "drain"
        /\ Len(dispatched) > log[i].fr
        /\ dispatched[log[i].fr + 1] \notin {sent[k] : k \in 1..Len(sent)}

----------------------------------------------------------------------------
(* SpecStore: blocking calls of every kind, each with a response slot, and *)
(* frames for every branch of parseReceivedMessage that pops a command.    *)

StoreFrames ==
    {Frame(<<NEX_RET_CMD_FINISHED_OK>>),
     Frame(<<NEX_RET_STRING_HEAD, 65>>),
     Frame(<<NEX_RET_NUMBER_HEAD, 1, 2, 3, 4>>),
     Frame(<<NEX_RET_EVENT_NEXTION_STARTUP>>),
     Frame(<<Nex_RET_TRANSPARENT_DATA_READY>>),
     Frame(<<65, 66>>)}

NextStore ==
    \/ recvCommandCall(NEX_RET_CMD_FINISHED_OK, MaxTimeout)
    \/ recvRetNumberCall(MaxTimeout)
    \/ \E hd \in BOOLEAN : recvRetStringCall(hd, MaxTimeout)
    \/ \E f \in StoreFrames : Recv(f)
    \/ Tick
    \/ BlockingReturn

SpecStore == Init /\ [][NextStore]_vars

\* the response slot holds frame f and its length
SlotHolds(slot, f) ==
    /\ slot.RX_ind = Len(f)
    /\ Prefix(slot.RX_buf, Len(f)) = f

(* C19: a frame that pops a command with a reserved response slot is       *)
(* copied, bytes and length, into that slot, whatever branch of the        *)
(* dispatcher pops the command.                                            *)
C19_PoppedFrameStored ==
    [][(/\ DispatchStep
        /\ ~isEmpty(Engine)
        /\ peek(Engine).response # -1
        /\ \E k \in 1..Len(NewEntries) :
              NewEntries[k].id = peek(Engine).id /\ NewEntries[k].ev # "sweep")
         => SlotHolds(respQ'[peek(Engine).response], NewFrame)]_vars

----------------------------------------------------------------------------
(* SpecWrap: non-blocking commands and blocking recvCommand calls in a     *)
(* program whose queue counters stand at 0 or just before their wrap.      *)

NextWrap ==
    \/ \E t \in Timeouts :
          Room /\ prepRetCode(NEX_RET_CMD_FINISHED_OK, TRUE, TRUE, t)
    \/ \E t \in Timeouts : Room /\ recvCommandCall(NEX_RET_CMD_FINISHED_OK, t)
    \/ Recv(Frame(<<NEX_RET_CMD_FINISHED_OK>>))
    \/ Tick
    \/ AdvanceTime
    \/ BlockingReturn

SpecWrap == InitWrap /\ [][NextWrap]_vars

(* C20: passedIndex of the index a waiting call's command was enqueued at  *)
(* is true exactly when that command has been taken out of the queue, also *)
(* when the counters wrap.                                                 *)
C20_PassedIffRemoved ==
    blk.pc = "wait"
        => (passedIndex(Engine, blk.saveSpot) <=> EntriesOf(blk.id) # {})

----------------------------------------------------------------------------
\* the issue indices of the commands in the slots between the cursors
Queued ==
    {eventQ[(Qread + k) % CMD_QUEUE_SIZE].id : k \in 0..(Pending - 1)}

(* C21: every issued command is consumed exactly once: no command is       *)
(* returned by dequeue twice, and every issued command is either still in  *)
(* the queue or has been dequeued, by a frame or by the sweeper.           *)
C21_ConsumedExactlyOnce ==
    \A k \in 0..(Len(issued) - 1) :
        /\ Cardinality(EntriesOf(k)) <= 1
        /\ (k \in Queued) # (EntriesOf(k) # {})

(* C22: the number of live entries of the Command Queue, write cursor      *)
(* minus read cursor, is at most CMD_QUEUE_SIZE.                           *)
C22_AtMostCapacity == Pending <= CMD_QUEUE_SIZE

----------------------------------------------------------------------------
(* SpecPop: CMD_QUEUE_SIZE acknowledged and number commands, with short    *)
(* deadlines, against acknowledgement, string and number replies and an    *)
(* unsolicited frame; the clock runs, so that a tick may dispatch a frame  *)
(* and sweep as well.                                                      *)

PopFrames ==
    {Frame(<<NEX_RET_CMD_FINISHED_OK>>),
     Frame(<<NEX_RET_STRING_HEAD, 65>>),
     Frame(<<NEX_RET_NUMBER_HEAD, 1, 2, 3, 4>>),
     PageFrame}

\* CMD_QUEUE_SIZE commands are issued in all
FewIssued == Len(issued) < CMD_QUEUE_SIZE

NextPop ==
    \/ FewIssued /\ prepRetCode(NEX_RET_CMD_FINISHED_OK, TRUE, TRUE, 1)
    \/ FewIssued /\ prepRetNumber(TRUE, FALSE, 1)
    \/ \E f \in PopFrames : Recv(f)
    \/ Tick
    \/ AdvanceTime

SpecPop == Init /\ [][NextPop]_vars

\* the commands the step takes out of the queue because of a frame
FramePops ==
    {k \in 1..Len(NewEntries) :
        NewEntries[k].id >= 0 /\ NewEntries[k].ev # "sweep"}

\* the commands the step takes out of the queue, by a frame or by the sweep
AllPops == {k \in 1..Len(NewEntries) : NewEntries[k].id >= 0}

\* the oldest pending command: the one with the least issue index
Oldest == CHOOSE k \in Queued : \A j \in Queued : k <= j

(* C23: a dispatched frame removes at most one pending command; a frame    *)
(* with leading byte 0x01, 0x70 or 0x71 dispatched while the queue is      *)
(* non-empty removes exactly one, the oldest; with an empty queue such a   *)
(* frame changes neither the queue nor the Response Store and invokes      *)
(* nothing.                                                                *)
C23_OnePerFrame ==
    [][DispatchStep
         => /\ Cardinality(FramePops) <= 1
            /\ Qread' = (Qread + Cardinality(AllPops)) % SizeMod
            /\ NewFrame[1] \in {NEX_RET_CMD_FINISHED_OK, NEX_RET_STRING_HEAD,
                                NEX_RET_NUMBER_HEAD}
                 => IF isEmpty(Engine)
                    THEN NewEntries = <<>> /\ QueuesUnchanged
                    ELSE /\ Cardinality(FramePops) = 1
                         /\ NewEntries[1].id = Oldest
                         /\ NewEntries[1].ev # "sweep"]_vars

\* a string reply has taken the oldest of two commands out of the queue and
\* the sweep of the same tick the other one
C23_Witness ==
    \E i \in 1..Len(log) :
        /\ ByFrame(i)
        /\ FrameOf(i)[1] = NEX_RET_STRING_HEAD
        /\ i < Len(log)
        /\ BySweep(i + 1)
        /\ log[i + 1].fr = log[i].fr
        /\ log[i + 1].id = log[i].id + 1

----------------------------------------------------------------------------
(* SpecSweep: CMD_QUEUE_SIZE commands with deadlines of their own, an      *)
(* acknowledgement now and then, whose bytes arrive one at a time, ticks   *)
(* and the clock.                                                          *)

NextSweep ==
    \/ \E t \in Timeouts :
          FewIssued /\ prepRetCode(NEX_RET_CMD_FINISHED_OK, TRUE, TRUE, t)
    \/ Transmit(Frame(<<NEX_RET_CMD_FINISHED_OK>>))
    \/ Arrive
    \/ Tick
    \/ AdvanceTime

SpecSweep == Init /\ [][NextSweep]_vars

\* every pending command's deadline has passed
AllExpired ==
    \A k \in 0..(Pending - 1) :
        now >= eventQ[(Qread + k) % CMD_QUEUE_SIZE].expiration_time

\* the history entries the step adds for swept commands
SweepPops == {k \in 1..Len(NewEntries) : NewEntries[k].ev = "sweep"}

\* what one nexLoop makes of the engine when no input is waiting
AfterTick == nexLoop(Engine, <<>>, now).e

(* C24: the sweep of one tick removes at most one command, the head of the *)
(* queue at that moment; with k >= 1 expired commands pending and no       *)
(* input, one tick leaves exactly k - 1 of them, the head being the one    *)
(* removed, so that k ticks are needed to drain them.                      *)
C24_OneSweepPerTick ==
    /\ [](AllExpired /\ Pending >= 1
            => /\ AfterTick.Qread = (Qread + 1) % SizeMod
               /\ AfterTick.Qwrite = Qwrite
               /\ AfterTick.eventQ = eventQ
               /\ Len(AfterTick.log) = Len(log) + 1
               /\ SubSeq(AfterTick.log, 1, Len(log)) = log
               /\ AfterTick.log[Len(log) + 1].id = peek(Engine).id
               /\ AfterTick.log[Len(log) + 1].ev = "sweep")
    /\ [][/\ Cardinality(SweepPops) <= 1
          /\ \A k \in SweepPops :
                /\ k = Len(NewEntries)
                /\ NewEntries[k].id =
                      eventQ[((Qread' - 1) % SizeMod) % CMD_QUEUE_SIZE].id
          /\ (serial = <<>> /\ Qread' # Qread)
                => (Pending' = Pending - 1 /\ Cardinality(SweepPops) = 1)]_vars

\* two commands had expired when a tick without input swept the first; the
\* second is still pending
C24_Witness ==
    /\ now = 1
    /\ sent = <<>>
    /\ Len(issued) = 2
    /\ Len(log) = 1
    /\ BySweep(1)
    /\ log[1].id = 0
    /\ Pending = 1
    /\ peek(Engine).id = 1
    /\ now >= peek(Engine).expiration_time

----------------------------------------------------------------------------
\* the readings of millis() from now on
LaterTimes == now..(ClockMod - 1)

\* the queue cursors, the Response Store and the decoder state
SweepState(e) ==
    <<e.Qread, e.Qwrite, e.respQ, e.respQwrite, e.RX_buffer, e.RX_ind,
      e.RX_ind_old, e.endTransCnt>>

(* C25: once the only pending command's deadline has passed, the first     *)
(* tick removes it, and every later tick with no new command and no input  *)
(* leaves the queue cursors, the Response Store and the decoder state as   *)
(* they are.                                                               *)
C25_SweepIdempotent ==
    /\ []((Pending = 1 /\ now >= peek(Engine).expiration_time)
            => /\ AfterTick.Qread = AfterTick.Qwrite
               /\ AfterTick.log[Len(AfterTick.log)].id = peek(Engine).id
               /\ \A t \in LaterTimes :
                     nexLoop(AfterTick, <<>>, t).e = AfterTick)
    /\ [][(isEmpty(Engine) /\ serial = <<>> /\ issued' = issued)
            => SweepState(EngineAfter) = SweepState(Engine)]_vars

\* the only pending command has been swept while a frame was half read
C25_Witness ==
    /\ Len(log) = 1
    /\ BySweep(1)
    /\ Len(issued) = 1
    /\ isEmpty(Engine)
    /\ RX_ind > 0
    /\ serial = <<>>

----------------------------------------------------------------------------
\* the delivery a command of the given kind has a value target for
OwnDelivery(type) == IF type = "CT_number" THEN "num" ELSE "str"

(* C26: the number or string target of a command is invoked only by a      *)
(* frame whose leading byte is the command's expected code, and only as    *)
(* the handler of the command's own kind, also when the command has no     *)
(* failure target.                                                         *)
C26_TargetOnlyByOwnCode ==
    \A i \in 1..Len(log) :
        (log[i].id >= 0 /\ log[i].ev \in {"num", "str"})
            => /\ FrameOf(i)[1] = Issued(log[i].id).successReturnCode
               /\ log[i].ev = OwnDelivery(Issued(log[i].id).cmdType)

----------------------------------------------------------------------------
(* SpecStream: the device sends a stream of bytes with no numeric frame in *)
(* it; the bytes arrive one at a time and the ticks read them.             *)

StreamLen == 9

\* the frame 0x67 0x00 0xFF 0x00 0xFF 0x01 0xFF 0xFF 0xFF
PairedFrame ==
    <<NEX_RET_EVENT_POSITION_HEAD, 0, 255, 0, 255, 1, 255, 255, 255>>

Streams ==
    {<<l>> \o t : l \in {NEX_RET_EVENT_POSITION_HEAD, 0, 255},
                  t \in [1..(StreamLen - 1) -> {0, 255}]}
    \cup {PairedFrame}

InitStream ==
    /\ InitEngine
    /\ handlers = HandlerNames
    /\ serial = <<>>
    /\ wire \in Streams
    /\ now = 0
    /\ blk = IdleCall
    /\ sent = <<wire>>
    /\ issued = <<>>
    /\ enqRet = TRUE

NextStream ==
    \/ Arrive
    \/ Tick

SpecStream == InitStream /\ [][NextStream]_vars

\* the bytes readSerialData has taken from the serial port so far
Consumed == SubSeq(sent[1], 1, Len(sent[1]) - Len(wire) - Len(serial))

\* the frames of a stream by the three-consecutive-0xFF rule: a frame that
\* starts at index start ends at the first index i >= start + 3 with 0xFF at
\* i - 2, i - 1 and i; rest is the unfinished frame at the end
RECURSIVE RefScan(_, _, _)
RefScan(s, i, start) ==
    IF i > Len(s)
    THEN [frames |-> <<>>, rest |-> SubSeq(s, start, Len(s))]
    ELSE IF /\ i >= start + 3
            /\ s[i] = NEX_END_TRANSMISSION_VALUE
            /\ s[i - 1] = NEX_END_TRANSMISSION_VALUE
            /\ s[i - 2] = NEX_END_TRANSMISSION_VALUE
    THEN LET r == RefScan(s, i + 1, i + 1)
         IN  [frames |-> <<SubSeq(s, start, i)>> \o r.frames, rest |-> r.rest]
    ELSE RefScan(s, i + 1, start)

\* no frame of the stream starts with 0xFF
LeadingBytesPlain(s) ==
    LET r == RefScan(s, 1, 1)
    IN  /\ \A k \in 1..Len(r.frames) :
              r.frames[k][1] # NEX_END_TRANSMISSION_VALUE
        /\ r.rest # <<>> => r.rest[1] # NEX_END_TRANSMISSION_VALUE

(* C27: in a stream of non-numeric frames the decoder completes a frame    *)
(* exactly when three consecutive 0xFF bytes have been read after the      *)
(* frame's leading byte: the frames dispatched are the stream cut at those *)
(* places, each of full length, and 0xFF bytes separated by other bytes do *)
(* not end a frame.                                                        *)
C27_ThreeConsecutive ==
    LeadingBytesPlain(Consumed)
        => LET r == RefScan(Consumed, 1, 1)
           IN  /\ dispatched = r.frames
               /\ RX_ind = Len(r.rest)
               /\ Prefix(RX_buffer, RX_ind) = r.rest

\* the frame with isolated 0xFF bytes in its payload has been dispatched whole
C27_Witness ==
    /\ sent[1] = PairedFrame
    /\ dispatched = <<PairedFrame>>
    /\ RX_ind_old = 9

----------------------------------------------------------------------------
\* entry i of the history is the invocation of a delivery target or of an
\* unsolicited-event handler
Invocation(i) ==
    log[i].ev \in {"succ", "fail", "num", "str", "NexTouch::iterate"}
                  \cup HandlerNames

\* the number of bytes the step takes from the serial port
BytesRead == Len(serial) - Len(serial')

(* C28: the decoder resets before it dispatches: when a delivery target or *)
(* an unsolicited-event handler is invoked, the write offset and the run   *)
(* counter are 0 and RX_ind_old holds the length of the completed frame;   *)
(* the dispatch runs in the step that reads the frame's last byte, and no  *)
(* byte behind it is read in that step.                                    *)
C28_ResetBeforeDispatch ==
    /\ [](\A i \in 1..Len(log) :
            Invocation(i)
                => /\ log[i].RX_ind = 0
                   /\ log[i].endTransCnt = 0
                   /\ FrameOf(i) = sent[log[i].fr]
                   /\ log[i].RX_ind_old = Len(sent[log[i].fr]))
    /\ [][DispatchStep
            => /\ BytesRead >= 1
               /\ serial' = SubSeq(serial, BytesRead + 1, Len(serial))
               /\ Prefix(RX_buffer, RX_ind) \o SubSeq(serial, 1, BytesRead)
                     = NewFrame
               /\ Len(dispatched') = Len(dispatched) + 1]_vars

\* the page-id handler has been invoked, in a program that has issued a
\* command, while the next frame was waiting on the serial port
C28_Witness ==
    \E i \in 1..Len(log) :
        /\ log[i].ev = "currentPageIdCallback"
        /\ Len(sent) > log[i].fr
        /\ serial = sent[log[i].fr + 1]
        /\ Len(issued) > 0

----------------------------------------------------------------------------
\* the frames of a stream when a 0xFF at the start of a frame is left out:
\* RefScan, but a frame cannot start with 0xFF
RECURSIVE RefScanSkip(_, _, _)
RefScanSkip(s, i, start) ==
    IF i > Len(s)
    THEN [frames |-> <<>>, rest |-> SubSeq(s, start, Len(s))]
    ELSE IF i = start /\ s[i] = NEX_END_TRANSMISSION_VALUE
    THEN RefScanSkip(s, i + 1, i + 1)
    ELSE IF /\ i >= start + 3
            /\ s[i] = NEX_END_TRANSMISSION_VALUE
            /\ s[i - 1] = NEX_END_TRANSMISSION_VALUE
            /\ s[i - 2] = NEX_END_TRANSMISSION_VALUE
    THEN LET r == RefScanSkip(s, i + 1, i + 1)
         IN  [frames |-> <<SubSeq(s, start, i)>> \o r.frames, rest |-> r.rest]
    ELSE RefScanSkip(s, i + 1, start)

\* the decoder has made of the bytes read what the scan r makes of them
DecodedAs(r) ==
    /\ dispatched = r.frames
    /\ RX_ind = Len(r.rest)
    /\ Prefix(RX_buffer, RX_ind) = r.rest
    /\ RX_ind <= 1 => endTransCnt = 0

(* C29 as stated: a 0xFF received at write offset 0 is not counted as a    *)
(* terminator, the run counter is 0 after it, and the byte is kept as the  *)
(* first data byte of the frame.                                           *)
C29_LeadingKept == DecodedAs(RefScan(Consumed, 1, 1))

(* C29 amended: a 0xFF received at write offset 0 is not counted as a      *)
(* terminator and the run counter is 0 after it; the byte is discarded:    *)
(* the write offset stays 0 and the next byte that is not 0xFF becomes the *)
(* frame's first byte.                                                     *)
C29_LeadingDropped == DecodedAs(RefScanSkip(Consumed, 1, 1))

\* a stream that starts with 0xFF has been read and its first frame has been
\* dispatched without that byte
C29_Witness ==
    /\ sent[1][1] = NEX_END_TRANSMISSION_VALUE
    /\ sent[1][2] # NEX_END_TRANSMISSION_VALUE
    /\ Len(dispatched) >= 1
    /\ dispatched[1][1] = sent[1][2]

----------------------------------------------------------------------------
(* SpecInvalid: CMD_QUEUE_SIZE commands, with and without a failure        *)
(* target, against the invalid-instruction frame and the startup frame.    *)

InvalidFrame == Frame(<<NEX_RET_EVENT_NEXTION_STARTUP>>)

NextInvalid ==
    \/ \E fail \in BOOLEAN :
          FewIssued /\ prepRetCode(NEX_RET_CMD_FINISHED_OK, TRUE, fail, 1)
    \/ FewIssued /\ prepRetNumber(TRUE, TRUE, 1)
    \/ Recv(InvalidFrame)
    \/ Recv(StartupFrame)
    \/ Tick
    \/ AdvanceTime

SpecInvalid == Init /\ [][NextInvalid]_vars

\* the history entries the step adds, those of the sweep left out
DispatchEntries == SelectSeq(NewEntries, LAMBDA x : x.ev # "sweep")

(* C30: the frame 0x00 0xFF 0xFF 0xFF dispatched while a command is        *)
(* pending removes the oldest pending command and invokes its failure      *)
(* target (when it has one) with code 0x00, and with an empty queue it     *)
(* changes nothing; the startup frame 0x00 0x00 0x00 0xFF 0xFF 0xFF        *)
(* invokes the startup handler and nothing else, and removes no command.   *)
C30_InvalidInstruction ==
    [][DispatchStep
         => /\ NewFrame = InvalidFrame
                 => IF isEmpty(Engine)
                    THEN NewEntries = <<>> /\ QueuesUnchanged
                    ELSE /\ Len(DispatchEntries) = 1
                         /\ DispatchEntries[1].id = Oldest
                         /\ DispatchEntries[1].id = NewEntries[1].id
                         /\ IF Issued(Oldest).failCB
                            THEN /\ DispatchEntries[1].ev = "fail"
                                 /\ DispatchEntries[1].val = <<0>>
                            ELSE DispatchEntries[1].ev = "none"
                         /\ Qread' = (Qread + Len(NewEntries)) % SizeMod
                         /\ respQ' = respQ
            /\ NewFrame = StartupFrame
                 => /\ Len(DispatchEntries) = 1
                    /\ DispatchEntries[1].id = -1
                    /\ DispatchEntries[1].ev = "nextionStartupCallback"
                    /\ Qread' = (Qread + Cardinality(SweepPops)) % SizeMod
                    /\ Qwrite' = Qwrite
                    /\ eventQ' = eventQ
                    /\ respQ' = respQ]_vars

\* the startup frame was dispatched with a command pending, which the sweep
\* of that tick took out, and an invalid-instruction frame has failed the
\* next command with code 0x00
C30_Witness ==
    \E i \in 1..Len(log), j \in 1..Len(log) :
        /\ log[i].ev = "nextionStartupCallback"
        /\ i < Len(log)
        /\ BySweep(i + 1)
        /\ log[i + 1].fr = log[i].fr
        /\ ByFrame(j)
        /\ FrameOf(j) = InvalidFrame
        /\ log[j].ev = "fail"
        /\ log[j].val = <<0>>

----------------------------------------------------------------------------
(* SpecString: string commands with and without header, with and without   *)
(* a failure target; the device answers them in issue order with a string  *)
(* of the command's kind.  The strings include the empty one and strings   *)
(* whose first character has the value of a type code.                     *)

StringTexts ==
    {<<>>, <<65>>, <<65, 66>>, <<NEX_RET_STRING_HEAD, 65>>,
     <<NEX_RET_NUMBER_HEAD, 65>>, <<NEX_RET_CMD_FINISHED_OK, 65>>,
     <<NEX_RET_CURRENT_PAGE_ID_HEAD, 65>>, <<NEX_RET_EVENT_NEXTION_STARTUP, 65>>}

\* the frame the device sends for string s in answer to a command of kind type;
\* an empty headless string has no frame of its own
StringReplies(type) ==
    IF type = "CT_stringHead"
    THEN {Frame(<<NEX_RET_STRING_HEAD>> \o s) : s \in StringTexts}
    ELSE {Frame(s) : s \in StringTexts \ {<<>>}}

StringReply ==
    /\ Len(sent) < Len(issued)
    /\ \E f \in StringReplies(issued[Len(sent) + 1].cmdType) :
          /\ serial' = serial \o f
          /\ sent' = Append(sent, f)
    /\ UNCHANGED <<engineVars, handlers, wire, now, blk, issued, enqRet>>

NextString ==
    \/ \E fail \in BOOLEAN, hd \in BOOLEAN :
          FewIssued /\ prepRetString(TRUE, fail, hd, MaxTimeout)
    \/ StringReply
    \/ Tick

SpecString == Init /\ [][NextString]_vars

\* the string a reply frame carries for a command of kind type
TextOf(type, f) ==
    IF type = "CT_stringHead"
    THEN SubSeq(f, 2, Len(f) - 3)
    ELSE SubSeq(f, 1, Len(f) - 3)

(* C31: the string handed to the target of a string command is exactly the *)
(* payload of the reply frame: the frame without its 0x70 header and its   *)
(* terminator for a command with header, the frame without its terminator  *)
(* for a headless one, the empty string included.                          *)
C31_StringExact ==
    \A i \in 1..Len(log) :
        (ByFrame(i) /\ log[i].ev = "str")
            => log[i].val = TextOf(Issued(log[i].id).cmdType, FrameOf(i))

\* the device's reply number k answered a headless string command
HeadlessReply(k) == issued[k].cmdType = "CT_stringHeadless"

\* command number k had its string target called with the whole text of its reply
DeliveredWhole(k) ==
    \E i \in 1..Len(log) :
        /\ log[i].id = issued[k].id
        /\ log[i].ev = "str"
        /\ log[i].val = TextOf("CT_stringHeadless", sent[k])

(* C33: a headless string reply reaches the pending headless string        *)
(* command whatever its first character is, the values of the type codes   *)
(* included: once its bytes are read, the command has been consumed by a   *)
(* call of its string target with the reply in its full length.            *)
C33_HeadlessAnyFirstByte ==
    serial = <<>> =>
        \A k \in 1..Len(sent) : HeadlessReply(k) => DeliveredWhole(k)

----------------------------------------------------------------------------
(* SpecLate: numeric commands with deadlines; the device answers them in   *)
(* issue order, at any time, and the reply to command number k carries the *)
(* value k, so that a frame tells which command it answers.                *)

NumberedReply ==
    /\ Len(sent) < Len(issued)
    /\ LET f == Frame(<<NEX_RET_NUMBER_HEAD, Len(sent) + 1, 0, 0, 0>>)
       IN  /\ serial' = serial \o f
           /\ sent' = Append(sent, f)
    /\ UNCHANGED <<engineVars, handlers, wire, now, blk, issued, enqRet>>

NextLate ==
    \/ \E fail \in BOOLEAN, t \in Timeouts :
          FewIssued /\ prepRetNumber(TRUE, fail, t)
    \/ NumberedReply
    \/ Tick
    \/ AdvanceTime

SpecLate == Init /\ [][NextLate]_vars

\* the id of the command that the frame behind history entry i answers
AnswerTo(i) == FrameOf(i)[2] - 1

\* the command with this id was taken out by the sweeper before entry i
SweptBefore(id, i) == \E j \in 1..(i - 1) : BySweep(j) /\ log[j].id = id

(* C32: once the sweeper has reclaimed command A, a reply to A that        *)
(* arrives afterwards takes no later command B out of the queue and calls  *)
(* none of B's targets.                                                    *)
C32_LateReplyIgnored ==
    \A i \in 1..Len(log) :
        ByFrame(i) => ~SweptBefore(AnswerTo(i), i)

----------------------------------------------------------------------------
(* SpecOverrun: a stream of RX_BUFFER_SIZE + 1 bytes arrives byte by byte  *)
(* and nexLoop runs after every byte.  readSerialData stores a byte with   *)
(* RX_buffer[RX_ind++] = newData and compares RX_ind with no bound, so a   *)
(* store at RX_ind >= RX_BUFFER_SIZE is a write behind the array.          *)

PastWrite == "write past RX_buffer"

OverrunStreams ==
    {<<l>> \o t : l \in {NEX_RET_NUMBER_HEAD, NEX_RET_EVENT_POSITION_HEAD},
                  t \in [1..RX_BUFFER_SIZE -> {0, 255}]}

InitOverrun ==
    /\ InitEngine
    /\ handlers = HandlerNames
    /\ serial = <<>>
    /\ wire \in OverrunStreams
    /\ now = 0
    /\ blk = IdleCall
    /\ sent = <<wire>>
    /\ issued = <<>>
    /\ enqRet = TRUE

\* the states one pass of the loop body can leave when the store goes behind
\* the array: the byte lands in memory nobody reads, or in one of the statics
\* declared behind RX_buffer
PastBuffer(e, newData) ==
    LET r == ReadByte(e, newData)
        p == IF r.frame THEN parseReceivedMessage(r.e) ELSE r.e
        w == Ev(p, -1, PastWrite, <<e.RX_ind>>)
    IN  {w,
         [w EXCEPT !.RX_ind = newData],
         [w EXCEPT !.RX_ind_old = newData],
         [w EXCEPT !.endTransCnt = newData]}

ArriveOne == serial = <<>> /\ Arrive

\* nexLoop with one byte to read that is stored inside the array
ReadInside == Len(serial) = 1 /\ RX_ind < RX_BUFFER_SIZE /\ Tick

\* nexLoop with one byte to read that is stored behind the array
ReadPast ==
    /\ Len(serial) = 1
    /\ RX_ind >= RX_BUFFER_SIZE
    /\ \E o \in PastBuffer(Engine, Head(serial)) :
          Commit(clearExpiredCommands(o, now))
    /\ serial' = <<>>
    /\ UNCHANGED <<handlers, wire, now, blk, sent, issued, enqRet>>

NextOverrun ==
    \/ ArriveOne
    \/ ReadInside
    \/ ReadPast

SpecOverrun == InitOverrun /\ [][NextOverrun]_vars

(* C34: for every byte stream, one without terminator and a numeric frame  *)
(* whose bytes 5..7 are not 0xFF included, the write index RX_ind stays    *)
(* below RX_BUFFER_SIZE and no byte is written behind the buffer.          *)
C34_IndexInBuffer ==
    /\ RX_ind < RX_BUFFER_SIZE
    /\ \A i \in 1..Len(log) : log[i].ev # PastWrite

----------------------------------------------------------------------------
(* SpecClock: millis() is a counter of ClockBits bits that starts at its   *)
(* largest value and wraps.  Commands are issued with timeout MaxTimeout   *)
(* before the clock moves, so the time a command has been pending is the   *)
(* time since the start.                                                   *)

ClockStart == ClockMod - 1

\* the ticks of the clock since the start (fewer than ClockMod)
Elapsed == (now - ClockStart) % ClockMod

InitClock ==
    /\ InitEngine
    /\ handlers = HandlerNames
    /\ serial = <<>>
    /\ wire = <<>>
    /\ now = ClockStart
    /\ blk = IdleCall
    /\ sent = <<>>
    /\ issued = <<>>
    /\ enqRet = TRUE

\* millis() advances by one and wraps at 2^ClockBits
AdvanceClock ==
    /\ Elapsed <= MaxTimeout
    /\ now' = (now + 1) % ClockMod
    /\ UNCHANGED <<engineVars, handlers, serial, wire, blk, sent, issued, enqRet>>

NextClock ==
    \/ \E fail \in BOOLEAN :
          /\ now = ClockStart
          /\ FewIssued
          /\ prepRetCode(NEX_RET_CMD_FINISHED_OK, TRUE, fail, MaxTimeout)
    \/ Recv(Frame(<<NEX_RET_CMD_FINISHED_OK>>))
    \/ Tick
    \/ AdvanceClock

SpecClock == InitClock /\ [][NextClock]_vars

\* the step has the sweeper take a command out of the queue
SweepStep == \E i \in (Len(log) + 1)..Len(log') : log'[i].ev = "sweep"

(* C35: with a clock of w bits, a pending command is not reclaimed before  *)
(* its timeout has elapsed, also when millis() + timeout overflows or the  *)
(* clock wraps while the command is pending.                               *)
C35_NotBeforeTimeout == [][SweepStep => Elapsed >= MaxTimeout]_vars

----------------------------------------------------------------------------
(* SpecBurst: MaxFrames complete frames are waiting on the serial port     *)
(* from the start; commands are issued, nexLoop runs and the clock moves.  *)

\* the bytes of a sequence of frames, one frame behind the other
RECURSIVE Burst(_)
Burst(fs) == IF fs = <<>> THEN <<>> ELSE Head(fs) \o Burst(Tail(fs))

InitBurst ==
    /\ InitEngine
    /\ handlers = HandlerNames
    /\ sent \in [1..MaxFrames -> PopFrames]
    /\ serial = Burst(sent)
    /\ wire = <<>>
    /\ now = 0
    /\ blk = IdleCall
    /\ issued = <<>>
    /\ enqRet = TRUE

NextBurst ==
    \/ FewIssued /\ prepRetCode(NEX_RET_CMD_FINISHED_OK, TRUE, TRUE, 1)
    \/ FewIssued /\ prepRetNumber(TRUE, FALSE, 1)
    \/ Tick
    \/ AdvanceTime

SpecBurst == InitBurst /\ [][NextBurst]_vars

\* the frames that have arrived and have not been dispatched
Waiting == SubSeq(sent, Len(dispatched) + 1, Len(sent))

(* C36: one nexLoop dispatches at most one frame, also when several        *)
(* complete frames are available: the bytes behind the dispatched frame    *)
(* stay unread on the serial port until a later tick, and the frames are   *)
(* dispatched in the order of their arrival.                               *)
C36_OneFramePerTick ==
    /\ [](/\ Len(dispatched) <= Len(sent)
          /\ dispatched = SubSeq(sent, 1, Len(dispatched))
          /\ serial = Burst(Waiting))
    /\ [][Len(dispatched') <= Len(dispatched) + 1]_vars

\* the first of two different frames has been dispatched to a pending
\* command, and the second one is still unread
C36_Witness ==
    /\ Len(dispatched) = 1
    /\ sent[1] # sent[2]
    /\ serial # <<>>
    /\ serial = Burst(Waiting)
    /\ \E i \in 1..Len(log) : log[i].fr = 1 /\ log[i].id = 0

----------------------------------------------------------------------------
(* SpecStray: number commands; the device sends acknowledgement and number *)
(* frames, and up to MaxStray bytes 0xFF precede a frame on the line.      *)

MaxStray == 3

Stray(n) == [i \in 1..n |-> NEX_END_TRANSMISSION_VALUE]

StrayFrames ==
    {Frame(<<NEX_RET_CMD_FINISHED_OK>>),
     Frame(<<NEX_RET_NUMBER_HEAD, 1, 2, 3, 4>>)}

NextStray ==
    \/ \E fail \in BOOLEAN : FewIssued /\ prepRetNumber(TRUE, fail, 1)
    \/ \E f \in StrayFrames, n \in 0..MaxStray : Recv(Stray(n) \o f)
    \/ Tick

SpecStray == Init /\ [][NextStray]_vars

\* a byte sequence without the 0xFF bytes at its start
RECURSIVE Unpadded(_)
Unpadded(s) ==
    IF s # <<>> /\ Head(s) = NEX_END_TRANSMISSION_VALUE
    THEN Unpadded(Tail(s))
    ELSE s

(* C37: 0xFF bytes between frames do no harm: any number of 0xFF bytes at  *)
(* the start of a frame are discarded, and the frame decoded behind them   *)
(* has the bytes and the length it has without them and goes to the same   *)
(* command with the same result.                                           *)
C37_StrayDiscarded ==
    /\ Len(dispatched) <= Len(sent)
    /\ \A i \in 1..Len(dispatched) : dispatched[i] = Unpadded(sent[i])
    /\ RX_ind = 0 =>
          \A f \in StrayFrames, n \in 1..MaxStray :
              LET with == nexLoop(Engine, Stray(n) \o f, now)
                  without == nexLoop(Engine, f, now)
              IN  /\ with.in = without.in
                  /\ with.e.log = without.e.log
                  /\ with.e.dispatched = without.e.dispatched
                  /\ with.e.Qread = without.e.Qread
                  /\ with.e.RX_ind_old = without.e.RX_ind_old
                  /\ with.e.RX_ind = without.e.RX_ind
                  /\ with.e.endTransCnt = without.e.endTransCnt

\* a number frame behind MaxStray bytes 0xFF has delivered its value to the
\* first command
C37_Witness ==
    \E i \in 1..Len(log) :
        /\ log[i].id = 0
        /\ log[i].ev = "num"
        /\ sent[log[i].fr] = Stray(MaxStray) \o FrameOf(i)
        /\ log[i].RX_ind_old = Len(FrameOf(i))

----------------------------------------------------------------------------
(* SpecCursor: issue, tick, dispatch, sweep and reset in any order, with   *)
(* one command more than the queue has slots.                              *)

NextCursor ==
    \/ Len(issued) <= CMD_QUEUE_SIZE
          /\ prepRetCode(NEX_RET_CMD_FINISHED_OK, TRUE, TRUE, 1)
    \/ Recv(Frame(<<NEX_RET_CMD_FINISHED_OK>>))
    \/ Tick
    \/ AdvanceTime
    \/ ResetCall

SpecCursor == Init /\ [][NextCursor]_vars

\* the issued commands that have not been taken out of the queue
Unconsumed == {k \in 0..(Len(issued) - 1) : EntriesOf(k) = {}}

(* C38: no dequeue happens on an empty queue: after any sequence of issue, *)
(* tick, dispatch, sweep and reset the read cursor does not exceed the     *)
(* write cursor, a step takes out no more commands than are pending, and   *)
(* isEmpty is true exactly when no issued command remains unconsumed.      *)
C38_NoDequeueOnEmpty ==
    /\ [](/\ Qread <= Qwrite
          /\ isEmpty(Engine) <=> Unconsumed = {})
    /\ [][Cardinality(AllPops) <= Pending]_vars

----------------------------------------------------------------------------
(* The earlier revision of readSerialData: every 0xFF stored behind offset *)
(* 0 counts towards the terminator, and no byte sets the count back.       *)

OldStart ==
    [RX_buffer |-> [i \in 0..(RX_BUFFER_SIZE - 1) |-> 0],
     RX_ind |-> 0, RX_ind_old |-> 0, endTransCnt |-> 0, dispatched |-> <<>>]

\* the body of the earlier while loop for one byte
ReadByteRunLength(e, newData) ==
    LET buf == IF e.RX_ind \in DOMAIN e.RX_buffer
               THEN [e.RX_buffer EXCEPT ![e.RX_ind] = newData]
               ELSE e.RX_buffer
        ind == WriteOffset(e, newData)
        w == [e EXCEPT !.RX_buffer = buf, !.RX_ind = ind]
    IN  IF newData = NEX_END_TRANSMISSION_VALUE /\ ind > 1
        THEN IF e.endTransCnt + 1 = NEX_END_TRANSMISSION_LENGTH
             THEN [e |-> [w EXCEPT !.endTransCnt = 0, !.RX_ind_old = ind,
                                   !.RX_ind = 0],
                   frame |-> TRUE]
             ELSE [e |-> [w EXCEPT !.endTransCnt = e.endTransCnt + 1],
                   frame |-> FALSE]
        ELSE [e |-> w, frame |-> FALSE]

\* the earlier readSerialData called until the bytes of in are used up; the
\* frames handed to parseReceivedMessage are collected in dispatched
RECURSIVE readSerialDataRunLength(_, _)
readSerialDataRunLength(e, in) ==
    IF in = <<>>
    THEN e
    ELSE LET r == ReadByteRunLength(e, Head(in))
         IN  readSerialDataRunLength(
                 IF r.frame
                 THEN [r.e EXCEPT !.dispatched =
                          Append(@, Prefix(r.e.RX_buffer, r.e.RX_ind_old))]
                 ELSE r.e,
                 Tail(in))

(* SpecRevisions: a stream of one or two frames arrives byte by byte and   *)
(* nexLoop runs at any moment; the earlier decoder is run on the bytes     *)
(* read so far.                                                            *)

BoundaryFrame == Frame(<<NEX_RET_NUMBER_HEAD, 255, 0, 0, 0>>)

ShortNumber == Frame(<<NEX_RET_NUMBER_HEAD, 65>>)

RevFrames ==
    {Frame(<<NEX_RET_CMD_FINISHED_OK>>),
     Frame(<<NEX_RET_STRING_HEAD, 65>>),
     Frame(<<NEX_RET_STRING_HEAD, 255, 65>>),
     Frame(<<NEX_RET_NUMBER_HEAD, 1, 2, 3, 4>>),
     BoundaryFrame}

\* behind a short frame with head 0x71 only frames that fit into RX_buffer
\* together with it
RevStreams ==
    {f \o g : f \in RevFrames, g \in RevFrames \cup {<<>>, ShortNumber}}
    \cup {ShortNumber \o g :
            g \in {<<>>, Frame(<<NEX_RET_CMD_FINISHED_OK>>),
                   Frame(<<NEX_RET_STRING_HEAD, 65>>)}}

InitRevisions ==
    /\ InitEngine
    /\ handlers = HandlerNames
    /\ serial = <<>>
    /\ wire \in RevStreams
    /\ now = 0
    /\ blk = IdleCall
    /\ sent = <<wire>>
    /\ issued = <<>>
    /\ enqRet = TRUE

NextRevisions ==
    \/ Arrive
    \/ Tick

SpecRevisions == InitRevisions /\ [][NextRevisions]_vars

\* what the earlier decoder has made of the bytes read so far
Earlier == readSerialDataRunLength(OldStart, Consumed)

\* every 0xFF of s belongs to a run of exactly three
OnlyTriples(s) ==
    \A i \in 1..Len(s) :
        s[i] = NEX_END_TRANSMISSION_VALUE
            => \E j \in {i - 2, i - 1, i} :
                  /\ j >= 1 /\ j + 2 <= Len(s)
                  /\ \A k \in j..(j + 2) : s[k] = NEX_END_TRANSMISSION_VALUE
                  /\ j > 1 => s[j - 1] # NEX_END_TRANSMISSION_VALUE
                  /\ j + 3 <= Len(s) => s[j + 3] # NEX_END_TRANSMISSION_VALUE

\* the two decoders have dispatched the same frames and hold the same
\* unfinished frame
SameFrames ==
    /\ dispatched = Earlier.dispatched
    /\ RX_ind = Earlier.RX_ind
    /\ Prefix(RX_buffer, RX_ind) = Prefix(Earlier.RX_buffer, Earlier.RX_ind)

(* C39: the two revisions of the decoder differ only on 0xFF payload      *)
(* bytes: the run-length decoder ends the frame 71 FF 00 00 00 FF FF FF    *)
(* after 7 bytes and the length-aware one after 8, and on every stream     *)
(* whose 0xFF bytes occur only in terminator triples both dispatch the     *)
(* same frames.                                                            *)
C39_SameOnTriples ==
    /\ (Len(sent[1]) >= 8 /\ SubSeq(sent[1], 1, 8) = BoundaryFrame)
          => /\ Len(Earlier.dispatched) >= 1 <=> Len(Consumed) >= 7
             /\ Len(Consumed) >= 7
                   => Earlier.dispatched[1] = SubSeq(BoundaryFrame, 1, 7)
             /\ Len(dispatched) >= 1 <=> Len(Consumed) >= 8
             /\ Len(Consumed) >= 8 => dispatched[1] = BoundaryFrame
    /\ OnlyTriples(sent[1]) => SameFrames

====
